---- MODULE Spec2Model ----
(***************************************************************************)
(* The browser pool of PriceComparisonServer (backend/server.js) and the   *)
(* callers of the pool, as a state machine.                                *)
(*                                                                         *)
(* Node runs the server on one thread: a step of the model is the code     *)
(* that runs between two suspension points (an await, a timer).            *)
(***************************************************************************)
EXTENDS Integers, Sequences, FiniteSets, TLC

\* ------------------------------------------------------------------ bounds
MaxLaunch == 3       \* browsers the pool launches successfully (session ids)

\* parseInt(process.env.PUPPETEER_POOL_SIZE || '2', 10)
DefaultPoolSize == 2

\* The concurrent callers of the pool: one to hold a browser and two to wait
\* for it is the least that shows an order among waiters.
Clients == {1, 2, 3}
Sessions == 1..MaxLaunch

\* for (let attempt = 0; attempt < 2; attempt++)
Attempts == 2

\* `let browser = null`
Null == 0

\* ------------------------------------------------------------------ state
VARIABLES
    poolSize,     \* this.poolSize
    browserPool,  \* this.browserPool: [isNull, size, browsers, available, pending]
    initI,        \* loop index i of initializeBrowserPool
    replacing,    \* replacement launches of removeBrowserFromPool in flight
    nextId,       \* identity of the next browser puppeteer.launch returns
    closed,       \* pool-launched browsers whose close() has been invoked
    destroyPc,    \* destroyPool: "none", "closing", "done"
    destroyAll,   \* destroyPool: the part of `all` not closed yet
    destroyed,    \* destroyPool: `all`, as copied from browsers
    pc,           \* per caller: position in scrapeSiteWithTempBrowser
    attempt,      \* per caller: loop variable `attempt`
    browser,      \* per caller: local `browser` (borrowedFromPool iff a Session)
    timer,        \* per caller: entry.timer is armed
    crashed,      \* an exception escaped a timer callback: the process is gone
    before,       \* history: <<w1, w2>>, both waiting, w1 called acquire first
    rm,           \* history: the pool as the last removeBrowserFromPool found it
    last,         \* history: what the last step did to a waiter or a caller
    \* POST /api/compare-prices and scrapeMultipleSites, one query
    qpc,          \* the request: "none", "sites" (in the loop), "done"
    siteI,        \* scrapeMultipleSites: the site being scraped, 1..NumSites
    script,       \* the site, as this query meets it: [fails, yield]
    tmp,          \* the attempt's own browser: "none", "failed", "open", "closed"
    timedOut,     \* the attempt's acquireFromPool was rejected (catch, line 754)
    log,          \* history: how the call for each finished site ended
    products,     \* scrapeMultipleSites: local `products`
    status,       \* the response's status, Null before it is sent
    results,      \* the response's `results`
    \* withRetry, one call
    attempts,     \* parameter `attempts`
    task,         \* scraperFn: for each invocation to come, how it ends
    rpc,          \* position: "none", "task", "recover", "backoff", "done"
    ri,           \* loop variable `i`
    lastErr,      \* local `lastErr`
    invoked,      \* history: invocations of scraperFn so far
    delays,       \* history: the backoff delays waited so far, in ms
    recovered,    \* history: recoveries (close and initializeBrowser) so far
    outcome,      \* what the call returned or threw, NoOutcome before
    \* deduplicateAndSort, one call
    input,        \* parameter `products`
    output,       \* what the call returned or threw, NoOutput before
    \* POST /api/compare-prices: the request
    body,         \* req.body.query
    error,        \* the response's `error`, "" when it has none
    \* GET /api/run-scraper, one request
    runReq,       \* req.query: [site, query]
    runPc,        \* "none", "adapter" (awaiting mapping[site](query)), "done"
    adapter,      \* history: what the request called, NoCall if nothing
    runRes,       \* the response: [status, error]
    \* logDebug and GET /api/logs
    debugLogs,    \* this._debugLogs
    logCalls,     \* history: lines logDebug has pushed so far, line k the k-th
    served,       \* history: `logs` of the last response of /api/logs
    \* the pool before the queries
    held,         \* history: the sessions the pool held when the queries began
    \* deduplicateAndSort, called on its own result
    again,        \* what deduplicateAndSort(output) returned, NoOutput before
    \* the shared default browser and the tasks that scrape on it
    thisBrowser,  \* this.browser: Null or a browser
    born,         \* browsers initializeBrowser has launched so far: 1..born
    shut,         \* browsers whose close() has been invoked
    launching,    \* initializeBrowser calls in puppeteer.launch that no task awaits
    events,       \* browsers whose 'disconnected' handler is still to run
    tpc,          \* per task: "idle", "init", "page", "recover", "reinit"
    tpage,        \* per task: the browser its open page is on, or Null
    \* the extension's popup
    visible,      \* the sections that do not have the class `hidden`
    timers,       \* auto-hide timers of showError still to fire
    fetching,     \* handleSearch calls suspended in fetch
    textContent   \* the text of the error message's paragraph

pvars == <<poolSize, browserPool, initI, replacing, nextId, closed, destroyPc,
           destroyAll, destroyed, pc, attempt, browser, timer, crashed, before,
           rm, last>>

qvars == <<qpc, siteI, script, tmp, timedOut, log, products, status, results>>

rvars == <<attempts, task, rpc, ri, lastErr, invoked, delays, recovered,
           outcome>>

xvars == <<input, output, body, error, runReq, runPc, adapter, runRes, debugLogs,
           logCalls, served>>

yvars == <<held, again, thisBrowser, born, shut, launching, events, tpc, tpage>>

zvars == <<visible, timers, fetching, textContent>>

vars == <<pvars, qvars, rvars, xvars, yvars, zvars>>

\* ------------------------------------------------------------ pure helpers
Max(a, b) == IF a >= b THEN a ELSE b

SeqToSet(s) == {s[i] : i \in 1..Len(s)}

\* Array.prototype.indexOf: the first index (1-based), 0 when absent
IndexOf(s, x) ==
    IF \E i \in 1..Len(s) : s[i] = x
    THEN CHOOSE i \in 1..Len(s) : s[i] = x /\ \A j \in 1..(i - 1) : s[j] # x
    ELSE 0

\* s.splice(i, 1)
SpliceAt(s, i) == [j \in 1..(Len(s) - 1) |-> IF j < i THEN s[j] ELSE s[j + 1]]

\* idx = s.indexOf(x); if (idx >= 0) s.splice(idx, 1)
Splice(s, x) == IF IndexOf(s, x) > 0 THEN SpliceAt(s, IndexOf(s, x)) ELSE s

NoDup(s) == \A i, j \in 1..Len(s) : i # j => s[i] # s[j]

NullPool == [isNull |-> TRUE, size |-> 0, browsers |-> <<>>,
             available |-> <<>>, pending |-> <<>>]

\* const size = Math.max(1, this.poolSize)
Size == Max(1, poolSize)

\* this.browserPool = { size, browsers: [], available: [], pending: [] }
NewPool(size) == [isNull |-> FALSE, size |-> size, browsers |-> <<>>,
                  available |-> <<>>, pending |-> <<>>]

NoResolve == [to |-> Null, with |-> Null, clear |-> FALSE]

\* --------------------------------------------------- the pool's operations
\* Each operator is the synchronous body of one method, as a function of the
\* pool object it finds.

\* initializeBrowserPool, lines 54-56, once launch has returned b; with
\* this.browserPool null the push throws and the catch of line 57 logs it
InitLaunched(p, b) ==
    IF p.isNull THEN p
    ELSE [p EXCEPT !.browsers = Append(@, b), !.available = Append(@, b)]

\* acquireFromPool up to its first suspension, for the caller (entry) c
AcquireFromPool(p, c) ==
    IF p.isNull
    THEN [pool |-> p, err |-> TRUE, got |-> Null, wait |-> FALSE]
    ELSE IF Len(p.available) > 0
    THEN [pool |-> [p EXCEPT !.available = Tail(@)], err |-> FALSE,
          got |-> Head(p.available), wait |-> FALSE]
    ELSE [pool |-> [p EXCEPT !.pending = Append(@, c)], err |-> FALSE,
          got |-> Null, wait |-> TRUE]

\* the setTimeout callback of acquireFromPool for entry c; `threw` when
\* this.browserPool is null and line 79 raises a TypeError before reject
AcquireTimeout(p, c) ==
    IF p.isNull
    THEN [pool |-> p, threw |-> TRUE, rejected |-> FALSE]
    ELSE [pool |-> [p EXCEPT !.pending = Splice(@, c)], threw |-> FALSE,
          rejected |-> TRUE]

\* releaseToPool without the `return` of line 128
ReleaseToPoolNoReturn(p, b) ==
    IF p.isNull THEN [pool |-> p, res |-> NoResolve]
    ELSE IF Len(p.pending) > 0
    THEN [pool |-> [p EXCEPT !.pending = Tail(@),
                             !.available = Append(@, b)],
          res |-> [to |-> Head(p.pending), with |-> b, clear |-> TRUE]]
    ELSE [pool |-> [p EXCEPT !.available = Append(@, b)], res |-> NoResolve]

\* releaseToPool with pending.pop() for pending.shift()
ReleaseToPoolNewestFirst(p, b) ==
    IF p.isNull THEN [pool |-> p, res |-> NoResolve]
    ELSE IF Len(p.pending) > 0
    THEN [pool |-> [p EXCEPT !.pending = SubSeq(@, 1, Len(@) - 1)],
          res |-> [to |-> p.pending[Len(p.pending)], with |-> b,
                   clear |-> TRUE]]
    ELSE [pool |-> [p EXCEPT !.available = Append(@, b)], res |-> NoResolve]

\* releaseToPool without the clearTimeout of line 126
ReleaseToPoolTimerLeft(p, b) ==
    IF p.isNull THEN [pool |-> p, res |-> NoResolve]
    ELSE IF Len(p.pending) > 0
    THEN [pool |-> [p EXCEPT !.pending = Tail(@)],
          res |-> [to |-> Head(p.pending), with |-> b, clear |-> FALSE]]
    ELSE [pool |-> [p EXCEPT !.available = Append(@, b)], res |-> NoResolve]

\* releaseToPool without the push of line 130
ReleaseToPoolDrops(p, b) ==
    IF p.isNull THEN [pool |-> p, res |-> NoResolve]
    ELSE IF Len(p.pending) > 0
    THEN [pool |-> [p EXCEPT !.pending = Tail(@)],
          res |-> [to |-> Head(p.pending), with |-> b, clear |-> TRUE]]
    ELSE [pool |-> p, res |-> NoResolve]

\* releaseToPool(b)
ReleaseToPool(p, b) ==
    IF p.isNull THEN [pool |-> p, res |-> NoResolve]
    ELSE IF Len(p.pending) > 0
    THEN [pool |-> [p EXCEPT !.pending = Tail(@)],
          res |-> [to |-> Head(p.pending), with |-> b, clear |-> TRUE]]
    ELSE [pool |-> [p EXCEPT !.available = Append(@, b)], res |-> NoResolve]

\* removeBrowserFromPool without the splice of line 91
RemoveKeepsBrowser(p, b) ==
    IF p.isNull THEN [pool |-> p, launch |-> FALSE]
    ELSE [pool |-> [p EXCEPT !.available = Splice(@, b)], launch |-> TRUE]

\* removeBrowserFromPool(b), the synchronous part: lines 88-93, and whether
\* the replacement launch of line 102 is started
RemoveBrowserFromPool(p, b) ==
    IF p.isNull THEN [pool |-> p, launch |-> FALSE]
    ELSE [pool |-> [p EXCEPT !.browsers = Splice(@, b),
                             !.available = Splice(@, b)],
          launch |-> TRUE]

\* the replacement with entry.resolve(nb) for
\* entry.resolve(this.browserPool.available.shift())
ReplacementKeepsAvailable(p, nb) ==
    IF p.isNull THEN [pool |-> p, res |-> NoResolve]
    ELSE LET q == [p EXCEPT !.browsers = Append(@, nb),
                            !.available = Append(@, nb)]
         IN  IF Len(q.pending) > 0
             THEN [pool |-> [q EXCEPT !.pending = Tail(@)],
                   res |-> [to |-> Head(q.pending), with |-> nb,
                            clear |-> TRUE]]
             ELSE [pool |-> q, res |-> NoResolve]

\* removeBrowserFromPool, lines 103-111, once the replacement launch has
\* returned nb; with this.browserPool null line 103 throws into the catch
ReplacementLaunched(p, nb) ==
    IF p.isNull THEN [pool |-> p, res |-> NoResolve]
    ELSE LET q == [p EXCEPT !.browsers = Append(@, nb),
                            !.available = Append(@, nb)]
         IN  IF Len(q.pending) > 0
             THEN [pool |-> [q EXCEPT !.pending = Tail(@),
                                      !.available = Tail(@)],
                   res |-> [to |-> Head(q.pending), with |-> Head(q.available),
                            clear |-> TRUE]]
             ELSE [pool |-> q, res |-> NoResolve]

\* destroyPool without `this.browserPool = null`
DestroyPoolKeepsPool(p) ==
    IF p.isNull THEN [pool |-> p, all |-> <<>>, ran |-> FALSE]
    ELSE [pool |-> p, all |-> p.browsers, ran |-> TRUE]

\* destroyPool, lines 134-136
DestroyPool(p) ==
    IF p.isNull THEN [pool |-> p, all |-> <<>>, ran |-> FALSE]
    ELSE [pool |-> NullPool, all |-> p.browsers, ran |-> TRUE]

\* ------------------------------------------ settling a waiter's promise
\* entry.resolve(x) resumes the waiter at line 753 (browser = x,
\* borrowedFromPool = true) and on to line 766; a promise settled before
\* ignores it. clearTimeout(entry.timer) disarms the timer.
Resumes(res) == res.to # Null /\ pc[res.to] = "waiting"

PcResolved(res) ==
    IF Resumes(res) THEN [pc EXCEPT ![res.to] = "page"] ELSE pc

BrowserResolved(res) ==
    IF Resumes(res) THEN [browser EXCEPT ![res.to] = res.with] ELSE browser

TimerResolved(res) ==
    IF res.to # Null /\ res.clear THEN [timer EXCEPT ![res.to] = FALSE]
    ELSE timer

Without(c) == {pr \in before : pr[1] # c /\ pr[2] # c}

BeforeResolved(res) == IF Resumes(res) THEN Without(res.to) ELSE before

Waiting == {c \in Clients : pc[c] = "waiting"}

Borrowed(c) == browser[c] \in Sessions

NoRm == [set |-> FALSE, avail |-> 0, brs |-> 0]

\* nothing to record
Quiet == [op |-> "none", who |-> Null]

Did(name, who) == [op |-> name, who |-> who]

\* what settling a waiter's promise records
Served(name, res) == IF Resumes(res) THEN Did(name, res.to) ELSE Quiet

\* ------------------------------------------------------------------- Init
\* The constructor has run: initializeBrowserPool has created the pool
\* object and is suspended in its first puppeteer.launch.
InitPool ==
    /\ poolSize \in {0, DefaultPoolSize}
    /\ browserPool = NewPool(Max(1, poolSize))
    /\ initI = 0
    /\ replacing = 0
    /\ nextId = 1
    /\ closed = {}
    /\ destroyPc = "none"
    /\ destroyAll = <<>>
    /\ destroyed = {}
    /\ pc = [c \in Clients |-> "idle"]
    /\ attempt = [c \in Clients |-> 0]
    /\ browser = [c \in Clients |-> Null]
    /\ timer = [c \in Clients |-> FALSE]
    /\ crashed = FALSE
    /\ before = {}
    /\ rm = NoRm
    /\ last = Quiet

\* no request for /api/compare-prices has arrived
NoScript == [fails |-> 0, yield |-> 0]

NoQuery ==
    /\ qpc = "none"
    /\ siteI = 0
    /\ script = NoScript
    /\ tmp = "none"
    /\ timedOut = FALSE
    /\ log = <<>>
    /\ products = <<>>
    /\ status = Null
    /\ results = <<>>

\* the value of a variable never assigned, and of an error thrown without one
Undefined == "undefined"

\* withRetry has not been called
NoOutcome == [kind |-> "none", val |-> Null]

NoRetry ==
    /\ attempts = 0
    /\ task = <<>>
    /\ rpc = "none"
    /\ ri = 0
    /\ lastErr = Undefined
    /\ invoked = 0
    /\ delays = <<>>
    /\ recovered = 0
    /\ outcome = NoOutcome

\* deduplicateAndSort has not been called
NoOutput == [kind |-> "none", val |-> <<>>]

NoDedup == input = <<>> /\ output = NoOutput

\* Strings are sequences of code points.  A value of req.body.query: what
\* JSON gave (a string, a number, or no such member) and the characters of
\* its text
StringValue(text) == [type |-> "string", text |-> text]
NumberValue(text) == [type |-> "number", text |-> text]
Missing == [type |-> "undefined", text |-> <<>>]

\* the query "ab"
QueryAb == StringValue(<<97, 98>>)

\* no request for /api/run-scraper has arrived
NoCall == "none"
NoAnswer == [status |-> Null, error |-> ""]

NoRun ==
    /\ runReq = [site |-> <<>>, query |-> <<>>]
    /\ runPc = "none"
    /\ adapter = NoCall
    /\ runRes = NoAnswer

\* nothing has been logged, /api/logs has not been asked
NotServed == [sent |-> FALSE, logs |-> <<>>]

NoLogs == debugLogs = <<>> /\ logCalls = 0 /\ served = NotServed

\* the tasks that scrape on the shared default browser
Tasks == {1, 2}

\* no shared browser yet, no launch in flight, no task
NoShared ==
    /\ thisBrowser = Null
    /\ born = 0
    /\ shut = {}
    /\ launching = 0
    /\ events = {}
    /\ tpc = [t \in Tasks |-> "idle"]
    /\ tpage = [t \in Tasks |-> Null]

\* the popup is not open
NoPopup == visible = {} /\ timers = 0 /\ fetching = 0 /\ textContent = ""

\* what the other specifications leave alone
Elsewhere == held = 0 /\ again = NoOutput /\ NoShared /\ NoPopup

Init ==
    /\ InitPool /\ NoQuery /\ NoRetry
    /\ NoDedup /\ body = QueryAb /\ error = "" /\ NoRun /\ NoLogs
    /\ Elsewhere

\* An exception that escapes a timer callback ends the Node process: no
\* step is taken after it.
Running == ~crashed

\* ------------------------------------------------ initializeBrowserPool
\* One iteration of the loop of lines 52-60: the launch returns a browser ...
InitLaunchOk ==
    /\ Running
    /\ UNCHANGED <<qvars, rvars, xvars, yvars, zvars>>
    /\ initI < Size
    /\ nextId <= MaxLaunch
    /\ browserPool' = InitLaunched(browserPool, nextId)
    /\ nextId' = nextId + 1
    /\ initI' = initI + 1
    /\ rm' = NoRm
    /\ last' = Quiet
    /\ UNCHANGED <<poolSize, replacing, closed, destroyPc, destroyAll,
                   destroyed, pc, attempt, browser, timer, crashed, before>>

\* ... or throws (catch of line 57)
InitLaunchFail ==
    /\ Running
    /\ UNCHANGED <<qvars, rvars, xvars, yvars, zvars>>
    /\ initI < Size
    /\ initI' = initI + 1
    /\ rm' = NoRm
    /\ last' = Quiet
    /\ UNCHANGED <<poolSize, browserPool, replacing, nextId, closed, destroyPc,
                   destroyAll, destroyed, pc, attempt, browser, timer, crashed,
                   before>>

\* ------------------------------------------- scrapeSiteWithTempBrowser
\* The caller's positions: "idle" (no call running), "waiting" (suspended in
\* acquireFromPool, line 752), "page" (holding a pooled browser, suspended in
\* newPage or in the page's navigation and evaluation, lines 766-904),
\* "temp" (lines 760-910 on a browser of its own, launched outside the pool),
\* "delay" (the 600 ms of line 928).

\* What a call of acquireFromPool by c does to the caller and the pool
Acquired(c, r) ==
    /\ browserPool' = r.pool
    /\ pc' = [pc EXCEPT ![c] = IF r.wait THEN "waiting" ELSE "page"]
    /\ browser' = [browser EXCEPT ![c] = r.got]
    /\ timer' = [timer EXCEPT ![c] = r.wait]
    /\ before' = IF r.wait THEN before \cup {<<w, c>> : w \in Waiting}
                 ELSE before
    /\ rm' = NoRm
    /\ last' = Quiet

\* The top of the loop body, lines 748-762, in attempt a: acquire from the
\* pool when there is one, else launch a browser
EnterAttempt(c, a) ==
    /\ attempt' = [attempt EXCEPT ![c] = a]
    /\ IF browserPool.isNull
       THEN /\ pc' = [pc EXCEPT ![c] = "temp"]
            /\ last' = Quiet
            /\ UNCHANGED <<browserPool, browser, timer, before, rm>>
       ELSE Acquired(c, AcquireFromPool(browserPool, c))
    /\ UNCHANGED <<poolSize, initI, replacing, nextId, closed, destroyPc,
                   destroyAll, destroyed, crashed>>

\* a query calls scrapeSiteWithTempBrowser
Start(c) ==
    /\ Running
    /\ UNCHANGED <<qvars, rvars, xvars, yvars, zvars>>
    /\ pc[c] = "idle"
    /\ EnterAttempt(c, 0)

\* acquireFromPool called by itself, without the guard of line 750
DirectAcquire(c) ==
    /\ Running
    /\ UNCHANGED <<qvars, rvars, xvars, yvars, zvars>>
    /\ pc[c] = "idle"
    /\ LET r == AcquireFromPool(browserPool, c)
       IN  IF r.err
           THEN /\ last' = Did("acquireError", c)
                /\ UNCHANGED <<browserPool, pc, browser, timer, before, rm>>
           ELSE Acquired(c, r)
    /\ UNCHANGED <<poolSize, initI, replacing, nextId, closed, destroyPc,
                   destroyAll, destroyed, attempt, crashed>>

\* the timer of c's entry fires (lines 78-82); the rejection resumes c in
\* the catch of line 754, and on to the launch of line 760
TimerFire(c) ==
    /\ Running
    /\ UNCHANGED <<qvars, rvars, xvars, yvars, zvars>>
    /\ timer[c]
    /\ timer' = [timer EXCEPT ![c] = FALSE]
    /\ LET r == AcquireTimeout(browserPool, c)
       IN  /\ browserPool' = r.pool
           /\ crashed' = r.threw
           /\ IF r.rejected /\ pc[c] = "waiting"
              THEN /\ pc' = [pc EXCEPT ![c] = "temp"]
                   /\ before' = Without(c)
                   /\ last' = Did("timeout", c)
              ELSE /\ last' = Quiet
                   /\ UNCHANGED <<pc, before>>
    /\ rm' = NoRm
    /\ UNCHANGED <<poolSize, initI, replacing, nextId, closed, destroyPc,
                   destroyAll, destroyed, attempt, browser>>

\* the catch of lines 914-929: browser = null, then the 600 ms delay
ToDelay(c) ==
    /\ pc' = [pc EXCEPT ![c] = "delay"]
    /\ browser' = [browser EXCEPT ![c] = Null]

\* the call returns (line 913) or throws (line 933)
ToIdle(f, c) == [f EXCEPT ![c] = "idle"]

\* lines 760-913 on a browser of the caller's own: it is launched, used,
\* closed, and the call returns
TempOk(c) ==
    /\ Running
    /\ UNCHANGED <<qvars, rvars, xvars, yvars, zvars>>
    /\ pc[c] = "temp"
    /\ pc' = ToIdle(pc, c)
    /\ attempt' = [attempt EXCEPT ![c] = 0]
    /\ UNCHANGED <<poolSize, browserPool, initI, replacing, nextId, closed,
                   destroyPc, destroyAll, destroyed, browser, timer, crashed,
                   before, rm, last>>

\* the launch, newPage or the extraction throws: the browser, if any, is
\* closed (lines 772, 921)
TempFail(c) ==
    /\ Running
    /\ UNCHANGED <<qvars, rvars, xvars, yvars, zvars>>
    /\ pc[c] = "temp"
    /\ ToDelay(c)
    /\ UNCHANGED <<poolSize, browserPool, initI, replacing, nextId, closed,
                   destroyPc, destroyAll, destroyed, attempt, timer, crashed,
                   before, rm, last>>

\* c calls removeBrowserFromPool on the browser it holds
Removes(c) ==
    LET r == RemoveBrowserFromPool(browserPool, browser[c])
    IN  /\ browserPool' = r.pool
        /\ replacing' = replacing + (IF r.launch THEN 1 ELSE 0)
        /\ rm' = IF r.launch /\ replacing = 0
                 THEN [set |-> TRUE, avail |-> Len(browserPool.available),
                       brs |-> Len(browserPool.browsers)]
                 ELSE NoRm
        /\ last' = Quiet

\* browser.newPage() throws on the pooled browser: lines 767-776, then the
\* catch of line 914 (browser is null there)
NewPageFail(c) ==
    /\ Running
    /\ UNCHANGED <<qvars, rvars, xvars, yvars, zvars>>
    /\ pc[c] = "page"
    /\ Removes(c)
    /\ closed' = closed \cup {browser[c]}
    /\ ToDelay(c)
    /\ UNCHANGED <<poolSize, initI, nextId, destroyPc, destroyAll, destroyed,
                   attempt, timer, crashed, before>>

\* lines 766-913 on the pooled browser: the extraction succeeds (with or
\* without products), the page is closed, the browser released, the call
\* returns
ScrapeOk(c) ==
    /\ Running
    /\ UNCHANGED <<qvars, rvars, xvars, yvars, zvars>>
    /\ pc[c] = "page"
    /\ LET r == ReleaseToPool(browserPool, browser[c])
       IN  /\ browserPool' = r.pool
           /\ pc' = ToIdle(PcResolved(r.res), c)
           /\ browser' = [BrowserResolved(r.res) EXCEPT ![c] = Null]
           /\ timer' = TimerResolved(r.res)
           /\ before' = BeforeResolved(r.res)
           /\ last' = Served("released", r.res)
    /\ attempt' = [attempt EXCEPT ![c] = 0]
    /\ rm' = NoRm
    /\ UNCHANGED <<poolSize, initI, replacing, nextId, closed, destroyPc,
                   destroyAll, destroyed, crashed>>

\* lines 778-904 throw on the pooled browser: the catch of lines 914-929
ScrapeFail(c) ==
    /\ Running
    /\ UNCHANGED <<qvars, rvars, xvars, yvars, zvars>>
    /\ pc[c] = "page"
    /\ Removes(c)
    /\ ToDelay(c)
    /\ UNCHANGED <<poolSize, initI, nextId, closed, destroyPc, destroyAll,
                   destroyed, attempt, timer, crashed, before>>

\* the delay of line 928 is over: the next attempt, or the throw of line 933
AfterDelay(c) ==
    /\ Running
    /\ UNCHANGED <<qvars, rvars, xvars, yvars, zvars>>
    /\ pc[c] = "delay"
    /\ IF attempt[c] + 1 < Attempts
       THEN EnterAttempt(c, attempt[c] + 1)
       ELSE /\ pc' = ToIdle(pc, c)
            /\ attempt' = [attempt EXCEPT ![c] = 0]
            /\ UNCHANGED <<poolSize, browserPool, initI, replacing, nextId,
                           closed, destroyPc, destroyAll, destroyed, browser,
                           timer, crashed, before, rm, last>>

\* ------------------------------- removeBrowserFromPool, the replacement
\* the launch of line 102 returns a browser: lines 103-111
ReplacementOk ==
    /\ Running
    /\ UNCHANGED <<qvars, rvars, xvars, yvars, zvars>>
    /\ replacing > 0
    /\ nextId <= MaxLaunch
    /\ LET r == ReplacementLaunched(browserPool, nextId)
       IN  /\ browserPool' = r.pool
           /\ pc' = PcResolved(r.res)
           /\ browser' = BrowserResolved(r.res)
           /\ timer' = TimerResolved(r.res)
           /\ before' = BeforeResolved(r.res)
           /\ last' = IF browserPool.isNull THEN Quiet
                      ELSE Did(IF rm.set THEN "replacedNext" ELSE "replaced",
                               r.res.to)
    /\ replacing' = replacing - 1
    /\ nextId' = nextId + 1
    /\ rm' = NoRm
    /\ UNCHANGED <<poolSize, initI, closed, destroyPc, destroyAll, destroyed,
                   attempt, crashed>>

\* the launch of line 102 throws: the catch of line 112
ReplacementFail ==
    /\ Running
    /\ UNCHANGED <<qvars, rvars, xvars, yvars, zvars>>
    /\ replacing > 0
    /\ replacing' = replacing - 1
    /\ rm' = NoRm
    /\ last' = Quiet
    /\ UNCHANGED <<poolSize, browserPool, initI, nextId, closed, destroyPc,
                   destroyAll, destroyed, pc, attempt, browser, timer, crashed,
                   before>>

\* ------------------------------------------------------------ destroyPool
\* destroyPool is called: lines 134-136 and the first close() of the loop
DestroyStart ==
    /\ Running
    /\ UNCHANGED <<qvars, rvars, xvars, yvars, zvars>>
    /\ destroyPc = "none"
    /\ LET r == DestroyPool(browserPool)
       IN  /\ browserPool' = r.pool
           /\ destroyed' = SeqToSet(r.all)
           /\ IF r.all = <<>>
              THEN /\ destroyPc' = "done"
                   /\ UNCHANGED <<destroyAll, closed>>
              ELSE /\ destroyPc' = "closing"
                   /\ closed' = closed \cup {Head(r.all)}
                   /\ destroyAll' = Tail(r.all)
    /\ rm' = NoRm
    /\ last' = Quiet
    /\ UNCHANGED <<poolSize, initI, replacing, nextId, pc, attempt, browser,
                   timer, crashed, before>>

\* a close() of the loop of lines 137-139 has settled: the next one, or the end
DestroyStep ==
    /\ Running
    /\ UNCHANGED <<qvars, rvars, xvars, yvars, zvars>>
    /\ destroyPc = "closing"
    /\ IF destroyAll = <<>>
       THEN /\ destroyPc' = "done"
            /\ UNCHANGED <<destroyAll, closed>>
       ELSE /\ closed' = closed \cup {Head(destroyAll)}
            /\ destroyAll' = Tail(destroyAll)
            /\ UNCHANGED destroyPc
    /\ UNCHANGED <<poolSize, browserPool, initI, replacing, nextId, destroyed,
                   pc, attempt, browser, timer, crashed, before, rm, last>>

\* ------------------------------------------------------------------- Next
Next ==
    \/ InitLaunchOk
    \/ InitLaunchFail
    \/ ReplacementOk
    \/ ReplacementFail
    \/ DestroyStart
    \/ DestroyStep
    \/ \E c \in Clients : Start(c)
    \/ \E c \in Clients : DirectAcquire(c)
    \/ \E c \in Clients : TimerFire(c)
    \/ \E c \in Clients : TempOk(c)
    \/ \E c \in Clients : TempFail(c)
    \/ \E c \in Clients : NewPageFail(c)
    \/ \E c \in Clients : ScrapeOk(c)
    \/ \E c \in Clients : ScrapeFail(c)
    \/ \E c \in Clients : AfterDelay(c)

Spec == Init /\ [][Next]_vars

\* ------------- concurrent queries on an initialized pool, lines 746-933
\* initializeBrowserPool is over, k of its launches having succeeded; then
\* the callers of scrapeSiteWithTempBrowser come, and every replacement
\* launch succeeds.
InitGiveBack ==
    /\ poolSize \in {0, DefaultPoolSize}
    /\ \E k \in 0..Max(1, poolSize) :
           /\ browserPool = [NewPool(Max(1, poolSize)) EXCEPT
                                 !.browsers = [i \in 1..k |-> i],
                                 !.available = [i \in 1..k |-> i]]
           /\ nextId = k + 1
           /\ held = k
    /\ initI = Max(1, poolSize)
    /\ replacing = 0
    /\ closed = {}
    /\ destroyPc = "none"
    /\ destroyAll = <<>>
    /\ destroyed = {}
    /\ pc = [c \in Clients |-> "idle"]
    /\ attempt = [c \in Clients |-> 0]
    /\ browser = [c \in Clients |-> Null]
    /\ timer = [c \in Clients |-> FALSE]
    /\ crashed = FALSE
    /\ before = {}
    /\ rm = NoRm
    /\ last = Quiet
    /\ NoQuery /\ NoRetry
    /\ NoDedup /\ body = QueryAb /\ error = "" /\ NoRun /\ NoLogs
    /\ again = NoOutput
    /\ NoShared /\ NoPopup

NextGiveBack ==
    \/ ReplacementOk
    \/ \E c \in Clients : Start(c)
    \/ \E c \in Clients : TimerFire(c)
    \/ \E c \in Clients : TempOk(c)
    \/ \E c \in Clients : TempFail(c)
    \/ \E c \in Clients : NewPageFail(c)
    \/ \E c \in Clients : ScrapeOk(c)
    \/ \E c \in Clients : ScrapeFail(c)
    \/ \E c \in Clients : AfterDelay(c)

SpecGiveBack == InitGiveBack /\ [][NextGiveBack]_vars

\* ----------------------- removeBrowserFromPool called by itself, line 87
\* removeBrowserFromPool(b) for any browser b, in the pool or not, while
\* the launches it starts can still be told apart
RemoveCall(b) ==
    /\ Running
    /\ nextId + replacing <= MaxLaunch
    /\ LET r == RemoveBrowserFromPool(browserPool, b)
       IN  /\ browserPool' = r.pool
           /\ replacing' = replacing + (IF r.launch THEN 1 ELSE 0)
    /\ rm' = NoRm
    /\ last' = Quiet
    /\ UNCHANGED <<poolSize, initI, nextId, closed, destroyPc, destroyAll,
                   destroyed, pc, attempt, browser, timer, crashed, before>>
    /\ UNCHANGED <<qvars, rvars, xvars, yvars, zvars>>

NextRemove ==
    \/ \E b \in Sessions : RemoveCall(b)
    \/ ReplacementOk
    \/ ReplacementFail

SpecRemove == InitGiveBack /\ [][NextRemove]_vars

\* ============================ POST /api/compare-prices: one query
\* `sites` of scrapeMultipleSites has four entries
NumSites == 4

Items == 3           \* products a site's page yields when it has any

\* the caller of the pool that is the query
Q == 1

\* -------------------------------------------------- products of a site
\* Characters are code points.  The k-th product of site s as page.evaluate
\* returns it (lines 807, 833, 860, 888: name and price are both truthy)
Product(s, k) ==
    [platform |-> s, name |-> <<64 + s, 48 + k>>, price |-> 100 * k + s]

Catalogue(s) == [k \in 1..Items |-> Product(s, k)]

\* the site as one query meets it: its first `fails` attempts throw (none,
\* one, or as many as a call makes), the next returns `yield` products
Scripts == [fails : 0..Attempts, yield : {0, Items}]

\* ------------------------------------------------- deduplicateAndSort
ToLowerCase(name) ==
    [i \in 1..Len(name) |->
        IF name[i] \in 65..90 THEN name[i] + 32 ELSE name[i]]

Substring(s, n) == SubSeq(s, 1, IF Len(s) < n THEN Len(s) ELSE n)

KeyLen == 50

KeyExactName(product) == <<product.name, product.price>>

\* line 942
Key(product) == <<Substring(ToLowerCase(product.name), KeyLen), product.price>>

\* lines 941-947: the first product of each key, in input order
RECURSIVE Unique(_, _)
Unique(ps, seen) ==
    IF ps = <<>> THEN <<>>
    ELSE IF Key(Head(ps)) \in seen THEN Unique(Tail(ps), seen)
    ELSE <<Head(ps)>> \o Unique(Tail(ps), seen \cup {Key(Head(ps))})

NoPrice == 999999

\* a price that is null; no code point and no price is negative
NullPrice == -1

\* a name that is null or undefined
NullName == <<NullPrice>>

\* `a.price || 999999`: a price that is null or 0 is falsy
SortValue(product) ==
    IF product.price = NullPrice \/ product.price = 0 THEN NoPrice
    ELSE product.price

RECURSIVE InsertBeforeEqual(_, _)
InsertBeforeEqual(p, ps) ==
    IF ps = <<>> THEN <<p>>
    ELSE IF SortValue(Head(ps)) < SortValue(p)
         THEN <<Head(ps)>> \o InsertBeforeEqual(p, Tail(ps))
         ELSE <<p>> \o ps

\* p goes behind every product that does not sort after it
RECURSIVE InsertSorted(_, _)
InsertSorted(p, ps) ==
    IF ps = <<>> THEN <<p>>
    ELSE IF SortValue(Head(ps)) <= SortValue(p)
         THEN <<Head(ps)>> \o InsertSorted(p, Tail(ps))
         ELSE <<p>> \o ps

\* Array.prototype.sort is stable: line 950
RECURSIVE SortByPrice(_)
SortByPrice(ps) ==
    IF ps = <<>> THEN <<>>
    ELSE InsertSorted(ps[Len(ps)], SortByPrice(SubSeq(ps, 1, Len(ps) - 1)))

DeduplicateAndSort(ps) == SortByPrice(Unique(ps, {}))

\* --------------------------- scrapeSiteWithTempBrowser: the exit paths
\* What an exit path does with the attempt's browser b, borrowed from the
\* pool p or not: the pool after it, the waiter a release resumes, whether
\* a replacement launch starts, whether b.close() is invoked.
Exit(p, res, launch, closes) ==
    [pool |-> p, res |-> res, launch |-> launch, closes |-> closes]

ReturnedReleasesAny(p, b, borrowed) ==
    Exit(ReleaseToPool(p, b).pool, ReleaseToPool(p, b).res, FALSE, FALSE)

\* lines 908-911
Returned(p, b, borrowed) ==
    IF borrowed
    THEN Exit(ReleaseToPool(p, b).pool, ReleaseToPool(p, b).res, FALSE, FALSE)
    ELSE Exit(p, NoResolve, FALSE, TRUE)

\* lines 769-772
NewPageFailed(p, b, borrowed) ==
    IF borrowed
    THEN Exit(RemoveBrowserFromPool(p, b).pool, NoResolve,
              RemoveBrowserFromPool(p, b).launch, TRUE)
    ELSE Exit(p, NoResolve, FALSE, TRUE)

CaughtReleases(p, b, borrowed) == Returned(p, b, borrowed)

\* lines 918-923
Caught(p, b, borrowed) ==
    IF borrowed
    THEN Exit(RemoveBrowserFromPool(p, b).pool, NoResolve,
              RemoveBrowserFromPool(p, b).launch, FALSE)
    ELSE Exit(p, NoResolve, FALSE, TRUE)

\* ------------------------------------------------- scrapeMultipleSites
\* how a call of scrapeSiteWithTempBrowser ends
Threw == [threw |-> TRUE, items |-> <<>>]
Gave(items) == [threw |-> FALSE, items |-> items]

SettledRethrows(call) == [abort |-> call.threw, push |-> call.items]

\* lines 366-378: the catch keeps a failed site from ending the loop
Settled(call) ==
    [abort |-> FALSE, push |-> IF call.threw THEN <<>> ELSE call.items]

PushFront(ps, items) == items \o ps

\* line 370
Push(ps, items) == ps \o items

\* the entry of `log` for a call
Ended(call) ==
    IF call.threw THEN "threw"
    ELSE IF call.items = <<>> THEN "empty" ELSE "items"

\* ----------------------------------------- the route, lines 342-355
Response(st, res) == [status |-> st, results |-> res]

RouteResponseFailsEmpty(threw, ps) ==
    IF threw \/ ps = <<>> THEN Response(500, <<>>)
    ELSE Response(200, DeduplicateAndSort(ps))

RouteResponse(threw, ps) ==
    IF threw THEN Response(500, <<>>)
    ELSE Response(200, DeduplicateAndSort(ps))

\* ------------------------------------------------- the query's steps
\* a browser launched outside the pool: not a Session
Disposable == MaxLaunch + 1

\* local `browser` of the query's attempt, once it has one
Local == IF Borrowed(Q) THEN browser[Q] ELSE Disposable

\* the attempt under way throws, somewhere between lines 760 and 904
Fails == attempt[Q] < script.fails

\* the top of the loop body in attempt a, lines 748-762
QEnter(a) ==
    /\ EnterAttempt(Q, a)
    /\ tmp' = "none"
    /\ timedOut' = FALSE

\* ---------------------- POST /api/compare-prices: line 335, the check
\* whitespace as String.prototype.trim sees it: tab, line feed, space
IsSpace(c) == c \in {9, 10, 32}

RECURSIVE TrimStart(_)
TrimStart(text) ==
    IF text # <<>> /\ IsSpace(Head(text)) THEN TrimStart(Tail(text))
    ELSE text

RECURSIVE TrimEnd(_)
TrimEnd(text) ==
    IF text # <<>> /\ IsSpace(text[Len(text)])
    THEN TrimEnd(SubSeq(text, 1, Len(text) - 1))
    ELSE text

Trim(text) == TrimEnd(TrimStart(text))

\* `!query`: undefined, the empty string, the number 0
Falsy(value) ==
    \/ value.type = "undefined"
    \/ value.type = "string" /\ value.text = <<>>
    \/ value.type = "number" /\ value.text = <<48>>

TooShortOrTwo(n) == n <= 2

\* `query.trim().length < 2`
TooShort(n) == n < 2

\* Line 335 on req.body.query: the handler answers 400 ("reject"), goes
\* on to line 341 ("accept"), or `query.trim` is not a function and the
\* TypeError lands in the catch of line 350 ("throw")
Validate(value) ==
    IF Falsy(value) THEN "reject"
    ELSE IF value.type # "string" THEN "throw"
    ELSE IF TooShort(Len(Trim(value.text))) THEN "reject"
    ELSE "accept"

TooShortMessage == "Query must be at least 2 characters long"
FailedMessage == "Failed to fetch product data"

\* The request arrives with a query that passes line 335:
\* scrapeMultipleSites starts on the first site, lines 360-367
Request ==
    /\ Running
    /\ Validate(body) = "accept"
    /\ qpc = "none"
    /\ pc[Q] = "idle"
    /\ qpc' = "sites"
    /\ siteI' = 1
    /\ script' \in Scripts
    /\ QEnter(0)
    /\ UNCHANGED <<log, products, status, results, rvars, xvars, yvars, zvars>>

\* the timer of the query's entry fires (lines 78-82): the catch of line
\* 754, and on to the launch of line 760
QTimerFire ==
    /\ Running
    /\ qpc = "sites"
    /\ timer[Q]
    /\ timer' = [timer EXCEPT ![Q] = FALSE]
    /\ LET r == AcquireTimeout(browserPool, Q)
       IN  /\ browserPool' = r.pool
           /\ crashed' = r.threw
           /\ IF r.rejected /\ pc[Q] = "waiting"
              THEN /\ pc' = [pc EXCEPT ![Q] = "temp"]
                   /\ before' = Without(Q)
                   /\ last' = Did("timeout", Q)
                   /\ timedOut' = TRUE
              ELSE /\ last' = Quiet
                   /\ UNCHANGED <<pc, before, timedOut>>
    /\ rm' = NoRm
    /\ UNCHANGED <<poolSize, initI, replacing, nextId, closed, destroyPc,
                   destroyAll, destroyed, attempt, browser>>
    /\ UNCHANGED <<qpc, siteI, script, tmp, log, products, status, results,
                   rvars, xvars, yvars, zvars>>

\* puppeteer.launch of line 760 returns a browser: on to newPage, line 766
QLaunchOk ==
    /\ Running
    /\ qpc = "sites"
    /\ pc[Q] = "temp"
    /\ pc' = [pc EXCEPT ![Q] = "page"]
    /\ tmp' = "open"
    /\ UNCHANGED <<poolSize, browserPool, initI, replacing, nextId, closed,
                   destroyPc, destroyAll, destroyed, attempt, browser, timer,
                   crashed, before, rm, last>>
    /\ UNCHANGED <<qpc, siteI, script, timedOut, log, products, status,
                   results, rvars, xvars, yvars, zvars>>

\* puppeteer.launch of line 760 throws: the catch of line 914 finds no
\* browser
QLaunchFail ==
    /\ Running
    /\ qpc = "sites"
    /\ pc[Q] = "temp"
    /\ Fails
    /\ ToDelay(Q)
    /\ tmp' = "failed"
    /\ UNCHANGED <<poolSize, browserPool, initI, replacing, nextId, closed,
                   destroyPc, destroyAll, destroyed, attempt, timer, crashed,
                   before, rm, last>>
    /\ UNCHANGED <<qpc, siteI, script, timedOut, log, products, status,
                   results, rvars, xvars, yvars, zvars>>

\* browser.newPage() of line 766 returns: on to lines 778-904
QNewPageOk ==
    /\ Running
    /\ qpc = "sites"
    /\ pc[Q] = "page"
    /\ pc' = [pc EXCEPT ![Q] = "scrape"]
    /\ UNCHANGED <<poolSize, browserPool, initI, replacing, nextId, closed,
                   destroyPc, destroyAll, destroyed, attempt, browser, timer,
                   crashed, before, rm, last>>
    /\ UNCHANGED <<qvars, rvars, xvars, yvars, zvars>>

\* what an exit path x does to the pool and to the attempt's browser
Leaves(x) ==
    /\ browserPool' = x.pool
    /\ replacing' = replacing + (IF x.launch THEN 1 ELSE 0)
    /\ closed' = IF x.closes /\ Borrowed(Q) THEN closed \cup {browser[Q]}
                 ELSE closed
    /\ tmp' = IF x.closes /\ ~Borrowed(Q) THEN "closed" ELSE tmp
    /\ rm' = IF x.launch /\ replacing = 0
             THEN [set |-> TRUE, avail |-> Len(browserPool.available),
                   brs |-> Len(browserPool.browsers)]
             ELSE NoRm

\* the call for the site has ended: lines 367-378, and the catch of the
\* route when scrapeMultipleSites throws
Collect(call) ==
    /\ log' = Append(log, Ended(call))
    /\ IF Settled(call).abort
       THEN /\ qpc' = "done"
            /\ status' = RouteResponse(TRUE, products).status
            /\ results' = RouteResponse(TRUE, products).results
            /\ UNCHANGED products
       ELSE /\ products' = Push(products, Settled(call).push)
            /\ UNCHANGED <<qpc, status, results>>
    /\ UNCHANGED <<siteI, script>>

\* browser.newPage() throws: lines 767-776, then the catch of line 914
\* (browser is null there)
QNewPageFail ==
    /\ Running
    /\ qpc = "sites"
    /\ pc[Q] = "page"
    /\ Fails
    /\ Leaves(NewPageFailed(browserPool, Local, Borrowed(Q)))
    /\ last' = Quiet
    /\ ToDelay(Q)
    /\ UNCHANGED <<poolSize, initI, nextId, destroyPc, destroyAll, destroyed,
                   attempt, timer, crashed, before>>
    /\ UNCHANGED <<qpc, siteI, script, timedOut, log, products, status,
                   results, rvars, xvars, yvars, zvars>>

\* lines 778-904 throw: the catch of lines 914-929
QScrapeFail ==
    /\ Running
    /\ qpc = "sites"
    /\ pc[Q] = "scrape"
    /\ Fails
    /\ Leaves(Caught(browserPool, Local, Borrowed(Q)))
    /\ last' = Quiet
    /\ ToDelay(Q)
    /\ UNCHANGED <<poolSize, initI, nextId, destroyPc, destroyAll, destroyed,
                   attempt, timer, crashed, before>>
    /\ UNCHANGED <<qpc, siteI, script, timedOut, log, products, status,
                   results, rvars, xvars, yvars, zvars>>

\* lines 778-913: the extraction gives the site's products, or none; the
\* page is closed, the browser released or closed, the call returns
QScrapeOk ==
    /\ Running
    /\ qpc = "sites"
    /\ pc[Q] = "scrape"
    /\ ~Fails
    /\ LET x == Returned(browserPool, Local, Borrowed(Q))
       IN  /\ Leaves(x)
           /\ pc' = ToIdle(PcResolved(x.res), Q)
           /\ browser' = [BrowserResolved(x.res) EXCEPT ![Q] = Null]
           /\ timer' = TimerResolved(x.res)
           /\ before' = BeforeResolved(x.res)
           /\ last' = Served("released", x.res)
    /\ attempt' = [attempt EXCEPT ![Q] = 0]
    /\ Collect(Gave(IF script.yield = 0 THEN <<>> ELSE Catalogue(siteI)))
    /\ UNCHANGED <<poolSize, initI, nextId, destroyPc, destroyAll, destroyed,
                   crashed>>
    /\ UNCHANGED <<timedOut, rvars, xvars, yvars, zvars>>

\* the delay of line 928 is over: the next attempt, or the throw of line 933
QAfterDelay ==
    /\ Running
    /\ qpc = "sites"
    /\ pc[Q] = "delay"
    /\ IF attempt[Q] + 1 < Attempts
       THEN /\ QEnter(attempt[Q] + 1)
            /\ UNCHANGED <<qpc, siteI, script, log, products, status, results>>
       ELSE /\ pc' = ToIdle(pc, Q)
            /\ attempt' = [attempt EXCEPT ![Q] = 0]
            /\ Collect(Threw)
            /\ UNCHANGED <<poolSize, browserPool, initI, replacing, nextId,
                           closed, destroyPc, destroyAll, destroyed, browser,
                           timer, crashed, before, rm, last>>
            /\ UNCHANGED <<tmp, timedOut>>
    /\ UNCHANGED <<rvars, xvars, yvars, zvars>>

\* the call for site siteI has ended and the loop is not over
Between == qpc = "sites" /\ pc[Q] = "idle" /\ Len(log) = siteI

\* the loop of line 364 goes on to the next site
NextSite ==
    /\ Running
    /\ Between
    /\ siteI < NumSites
    /\ siteI' = siteI + 1
    /\ script' \in Scripts
    /\ QEnter(0)
    /\ UNCHANGED <<qpc, log, products, status, results, rvars, xvars, yvars, zvars>>

\* the loop is over: line 382, and the response of lines 344-348
CanRespond == Running /\ Between /\ siteI = NumSites

Respond ==
    /\ CanRespond
    /\ qpc' = "done"
    /\ status' = RouteResponse(FALSE, products).status
    /\ results' = RouteResponse(FALSE, products).results
    /\ UNCHANGED <<pvars, siteI, script, tmp, timedOut, log, products, rvars, xvars, yvars, zvars>>

\* The server with one query: the pool's own steps, no destroyPool (nothing
\* in the repository calls it)
NextQ ==
    \/ InitLaunchOk
    \/ InitLaunchFail
    \/ ReplacementOk
    \/ ReplacementFail
    \/ Request
    \/ QTimerFire
    \/ QLaunchOk
    \/ QLaunchFail
    \/ QNewPageOk
    \/ QNewPageFail
    \/ QScrapeOk
    \/ QScrapeFail
    \/ QAfterDelay
    \/ NextSite
    \/ Respond

SpecQuery == Init /\ [][NextQ]_vars

\* ------------------- POST /api/compare-prices, any body: lines 331-357
MaxQuery == 4        \* the longest query string

\* strings of spaces, "a" and "b"
Strings == UNION {[1..n -> {32, 97, 98}] : n \in 0..MaxQuery}

\* req.body.query: absent, a string, or the numbers 0, 7, 12
Bodies ==
    {Missing} \cup {StringValue(text) : text \in Strings}
        \cup {NumberValue(<<48>>), NumberValue(<<55>>), NumberValue(<<49, 50>>)}

InitRoute ==
    /\ InitPool /\ NoQuery /\ NoRetry /\ NoDedup
    /\ body \in Bodies
    /\ error = ""
    /\ NoRun /\ NoLogs
    /\ Elsewhere

\* the check of line 335 fails: lines 336-338
Reject ==
    /\ Running
    /\ Validate(body) = "reject"
    /\ qpc = "none"
    /\ qpc' = "done"
    /\ status' = 400
    /\ error' = TooShortMessage
    /\ UNCHANGED <<pvars, siteI, script, tmp, timedOut, log, products,
                   results, rvars, input, output, body, runReq, runPc,
                   adapter, runRes, debugLogs, logCalls, served, yvars, zvars>>

\* the check of line 335 throws: the catch of lines 350-355
ValidateThrows ==
    /\ Running
    /\ Validate(body) = "throw"
    /\ qpc = "none"
    /\ qpc' = "done"
    /\ status' = 500
    /\ error' = FailedMessage
    /\ UNCHANGED <<pvars, siteI, script, tmp, timedOut, log, products,
                   results, rvars, input, output, body, runReq, runPc,
                   adapter, runRes, debugLogs, logCalls, served, yvars, zvars>>

\* The handler up to its first await, while the pool's initial launches
\* come in; what an accepted request does next is NextQ.
NextRoute ==
    \/ InitLaunchOk
    \/ InitLaunchFail
    \/ Request
    \/ Reject
    \/ ValidateThrows

SpecRoute == InitRoute /\ [][NextRoute]_vars

\* -------------------------------------- deduplicateAndSort, one call
MaxLen == 3          \* the longest input list

\* `product.name.toLowerCase()` of line 942 throws on a name that is null
DedupThrows(ps) == \E i \in 1..Len(ps) : ps[i].name = NullName

\* the names "Phone X", "PHONE X", "Phone Y"
PhoneX == <<80, 104, 111, 110, 101, 32, 88>>
PhoneXUpper == <<80, 72, 79, 78, 69, 32, 88>>
PhoneY == <<80, 104, 111, 110, 101, 32, 89>>

\* a name of KeyLen + 1 characters: KeyLen times "a", then c
LongName(c) == [i \in 1..(KeyLen + 1) |-> IF i <= KeyLen THEN 97 ELSE c]

\* The lists of at most MaxLen products with names and prices from the
\* given sets; `platform` tells the products of a list apart.
Lists(names, prices) ==
    UNION {[1..n -> [platform : {0}, name : names, price : prices]]
               : n \in 0..MaxLen}

Tagged(ps) == [i \in 1..Len(ps) |-> [ps[i] EXCEPT !.platform = i]]

\* names that differ in case, beyond KeyLen characters, or not at all
InitDedup ==
    /\ InitPool /\ NoQuery /\ NoRetry /\ body = QueryAb /\ error = "" /\ NoRun /\ NoLogs
    /\ Elsewhere
    /\ \E ps \in Lists({PhoneX, PhoneXUpper, PhoneY, LongName(98),
                        LongName(99), NullName}, {NullPrice, 50, 100}) :
           input = Tagged(ps)
    /\ output = NoOutput

\* prices that are null, 0, small, the sentinel of line 950, and above it
InitSort ==
    /\ InitPool /\ NoQuery /\ NoRetry /\ body = QueryAb /\ error = "" /\ NoRun /\ NoLogs
    /\ Elsewhere
    /\ \E ps \in Lists({PhoneX, PhoneY, NullName},
                       {NullPrice, 0, 10, 100, NoPrice, NoPrice + 1}) :
           input = Tagged(ps)
    /\ output = NoOutput

\* deduplicateAndSort(input) is called
Deduplicate ==
    /\ output = NoOutput
    /\ output' = IF DedupThrows(input) THEN [kind |-> "threw", val |-> <<>>]
                 ELSE [kind |-> "returned", val |-> DeduplicateAndSort(input)]
    /\ UNCHANGED <<pvars, qvars, rvars, input, body, error, runReq, runPc,
                   adapter, runRes, debugLogs, logCalls, served, yvars, zvars>>

\* deduplicateAndSort(output) is called, `output` being what the first
\* call returned
DeduplicateAgain ==
    /\ output.kind = "returned"
    /\ again = NoOutput
    /\ again' = [kind |-> "returned", val |-> DeduplicateAndSort(output.val)]
    /\ UNCHANGED <<pvars, qvars, rvars, xvars, zvars, held, thisBrowser, born, shut,
                   launching, events, tpc, tpage>>

NextDedup == Deduplicate \/ DeduplicateAgain

SpecDedup == InitDedup /\ [][NextDedup]_vars

SpecSort == InitSort /\ [][NextDedup]_vars

\* ------------------------------------------------ logDebug, line 142
MaxDebugLogs == 200  \* this._maxDebugLogs

PushedUnbounded(logs, line) == Append(logs, line)

\* lines 146-147: push, then shift when the buffer has grown too long
Pushed(logs, line) ==
    IF Len(logs) + 1 > MaxDebugLogs THEN Tail(Append(logs, line))
    ELSE Append(logs, line)

\* ----------------------------- GET /api/run-scraper: lines 243-265
\* the site identifiers "amazon", "flipkart", "myntra", "snapdeal"
Amazon == <<97, 109, 97, 122, 111, 110>>
Flipkart == <<102, 108, 105, 112, 107, 97, 114, 116>>
Myntra == <<109, 121, 110, 116, 114, 97>>
Snapdeal == <<115, 110, 97, 112, 100, 101, 97, 108>>

\* "AMAZON", "ebay", "tostring", "constructor", "Constructor", "__proto__"
AmazonUpper == <<65, 77, 65, 90, 79, 78>>
Ebay == <<101, 98, 97, 121>>
ToStringLower == <<116, 111, 115, 116, 114, 105, 110, 103>>
ConstructorName == <<99, 111, 110, 115, 116, 114, 117, 99, 116, 111, 114>>
ConstructorUpper == <<67, 111, 110, 115, 116, 114, 117, 99, 116, 111, 114>>
ProtoName == <<95, 95, 112, 114, 111, 116, 111, 95, 95>>

SiteIds ==
    {<<>>, Amazon, Flipkart, Myntra, Snapdeal, AmazonUpper, Ebay,
     ToStringLower, ConstructorName, ConstructorUpper, ProtoName}

\* req.query.query: "", "a", "ab", " ab", " a", "abb"
RunQueries ==
    {<<>>, <<97>>, <<97, 98>>, <<32, 97, 98>>, <<32, 97>>, <<97, 98, 98>>}

MappingOwn(site) ==
    CASE site = Amazon -> "scrapeAmazon"
      [] site = Flipkart -> "scrapeFlipkart"
      [] site = Myntra -> "scrapeMyntra"
      [] site = Snapdeal -> "scrapeSnapdeal"
      [] OTHER -> "undefined"

\* `mapping[site]`, lines 248-255: `mapping` is an object literal, so the
\* lookup finds its four own properties and what it inherits from
\* Object.prototype; of the inherited names only these two are all
\* lower case
Mapping(site) ==
    CASE site = ConstructorName -> "Object"
      [] site = ProtoName -> "Object.prototype"
      [] OTHER -> MappingOwn(site)

Adapters == {"scrapeAmazon", "scrapeFlipkart", "scrapeMyntra", "scrapeSnapdeal"}

RunSite == ToLowerCase(runReq.site)      \* line 244
RunQuery == Trim(runReq.query)           \* line 245

Answer(code, message) == [status |-> code, error |-> message]

InitRun ==
    /\ InitPool /\ NoQuery /\ NoRetry /\ NoDedup
    /\ body = QueryAb /\ error = ""
    /\ runReq \in [site : SiteIds, query : RunQueries]
    /\ runPc = "none"
    /\ adapter = NoCall
    /\ runRes = NoAnswer
    /\ NoLogs
    /\ Elsewhere

\* line 246
RunShortQuery ==
    /\ runPc = "none"
    /\ TooShort(Len(RunQuery))
    /\ runPc' = "done"
    /\ runRes' = Answer(400, "Query must be at least 2 characters")
    /\ UNCHANGED <<pvars, qvars, rvars, input, output, body, error, runReq,
                   adapter, debugLogs, logCalls, served, yvars, zvars>>

\* line 255
RunUnknownSite ==
    /\ runPc = "none"
    /\ ~TooShort(Len(RunQuery))
    /\ Mapping(RunSite) = "undefined"
    /\ runPc' = "done"
    /\ runRes' = Answer(400, "Unknown site")
    /\ UNCHANGED <<pvars, qvars, rvars, input, output, body, error, runReq,
                   adapter, debugLogs, logCalls, served, yvars, zvars>>

\* line 258, `mapping[site](query)` on what is no function: the TypeError
\* lands in the catch of line 261
RunNotCallable ==
    /\ runPc = "none"
    /\ ~TooShort(Len(RunQuery))
    /\ Mapping(RunSite) = "Object.prototype"
    /\ runPc' = "done"
    /\ runRes' = Answer(500, "run-scraper failed")
    /\ UNCHANGED <<pvars, qvars, rvars, input, output, body, error, runReq,
                   adapter, debugLogs, logCalls, served, yvars, zvars>>

\* line 258: the function found is called and awaited
RunCall ==
    /\ runPc = "none"
    /\ ~TooShort(Len(RunQuery))
    /\ Mapping(RunSite) \in Adapters \cup {"Object"}
    /\ runPc' = "adapter"
    /\ adapter' = Mapping(RunSite)
    /\ UNCHANGED <<pvars, qvars, rvars, input, output, body, error, runReq,
                   runRes, debugLogs, logCalls, served, yvars, zvars>>

\* lines 259-260: an adapter returns a list of products, Object(query)
\* a String object, which has a `length` and a `slice` as well.
\* logDebug, then 200.
RunReturns ==
    /\ runPc = "adapter"
    /\ runPc' = "done"
    /\ runRes' = Answer(200, "")
    /\ logCalls' = logCalls + 1
    /\ debugLogs' = Pushed(debugLogs, logCalls + 1)
    /\ UNCHANGED <<pvars, qvars, rvars, input, output, body, error, runReq,
                   adapter, served, yvars, zvars>>

\* lines 261-263: the adapter throws
RunThrows ==
    /\ runPc = "adapter"
    /\ adapter \in Adapters
    /\ runPc' = "done"
    /\ runRes' = Answer(500, "run-scraper failed")
    /\ UNCHANGED <<pvars, qvars, rvars, input, output, body, error, runReq,
                   adapter, debugLogs, logCalls, served, yvars, zvars>>

NextRun ==
    \/ RunShortQuery
    \/ RunUnknownSite
    \/ RunNotCallable
    \/ RunCall
    \/ RunReturns
    \/ RunThrows

SpecRun == InitRun /\ [][NextRun]_vars

\* ------------------------------------ logDebug and GET /api/logs
MaxLogged == 205     \* lines logged at most
LogsServed == 100    \* `slice(-100)`

\* `logs.slice(-n)`: from index max(length - n, 0) to the end
SliceLast(logs, n) ==
    SubSeq(logs, (IF Len(logs) > n THEN Len(logs) - n ELSE 0) + 1, Len(logs))

\* logDebug(...), lines 143-150, wherever it is called from.  A call whose
\* line cannot be built (JSON.stringify throws) lands in the catch of
\* line 148 before the push and changes nothing.
LogDebug ==
    /\ logCalls < MaxLogged
    /\ logCalls' = logCalls + 1
    /\ debugLogs' = Pushed(debugLogs, logCalls + 1)
    /\ UNCHANGED <<pvars, qvars, rvars, input, output, body, error, runReq,
                   runPc, adapter, runRes, served, yvars, zvars>>

\* GET /api/logs, lines 238-240
GetLogs ==
    /\ served' = [sent |-> TRUE, logs |-> SliceLast(debugLogs, LogsServed)]
    /\ UNCHANGED <<pvars, qvars, rvars, input, output, body, error, runReq,
                   runPc, adapter, runRes, debugLogs, logCalls, yvars, zvars>>

NextLogs == LogDebug \/ GetLogs

SpecLogs == Init /\ [][NextLogs]_vars

\* ------------- the shared default browser: initializeBrowser (172-231),
\* the adapters on this.browser (423-495) inside withRetry (392-421)
MaxShared == 4       \* browsers initializeBrowser launches successfully

\* The constructor has called initializeBrowser (line 19), which is
\* suspended in puppeteer.launch.
InitShared ==
    /\ InitPool /\ NoQuery /\ NoRetry
    /\ NoDedup /\ body = QueryAb /\ error = "" /\ NoRun /\ NoLogs
    /\ held = 0
    /\ again = NoOutput
    /\ thisBrowser = Null
    /\ born = 0
    /\ shut = {}
    /\ launching = 1
    /\ events = {}
    /\ tpc = [t \in Tasks |-> "idle"]
    /\ tpage = [t \in Tasks |-> Null]
    /\ NoPopup

\* line 191 (or 205): the launch returns a browser, which becomes
\* this.browser whatever this.browser was; line 218 gives it the
\* 'disconnected' handler
Launched ==
    /\ thisBrowser' = born + 1
    /\ born' = born + 1

\* a launch of the constructor's or of a handler's initializeBrowser returns
LaunchOk ==
    /\ launching > 0
    /\ born < MaxShared
    /\ Launched
    /\ launching' = launching - 1
    /\ UNCHANGED <<pvars, qvars, rvars, xvars, zvars, held, again, shut, events, tpc, tpage>>

\* ... or throws, with every fallback path: the catch of line 228
LaunchFail ==
    /\ launching > 0
    /\ launching' = launching - 1
    /\ UNCHANGED <<pvars, qvars, rvars, xvars, zvars, held, again, thisBrowser, born, shut,
                   events, tpc, tpage>>

\* line 433: `this.browser.newPage()`; on null it throws a TypeError, which
\* matches none of the messages of line 403: on to the backoff, after
\* which the task is between two attempts again ("idle")
NewPage(t) ==
    IF thisBrowser = Null
    THEN /\ tpc' = [tpc EXCEPT ![t] = "idle"]
         /\ UNCHANGED tpage
    ELSE /\ tpc' = [tpc EXCEPT ![t] = "page"]
         /\ tpage' = [tpage EXCEPT ![t] = thisBrowser]

\* an attempt of a task starts, lines 426-433: with this.browser null it
\* awaits initializeBrowser first
AttemptStarts(t) ==
    /\ tpc[t] = "idle"
    /\ IF thisBrowser = Null
       THEN /\ tpc' = [tpc EXCEPT ![t] = "init"]
            /\ UNCHANGED tpage
       ELSE NewPage(t)
    /\ UNCHANGED <<pvars, qvars, rvars, xvars, zvars, held, again, thisBrowser, born, shut,
                   launching, events>>

\* the initializeBrowser of line 430 has launched a browser: line 433 on it
AttemptInitOk(t) ==
    /\ tpc[t] = "init"
    /\ born < MaxShared
    /\ Launched
    /\ tpc' = [tpc EXCEPT ![t] = "page"]
    /\ tpage' = [tpage EXCEPT ![t] = born + 1]
    /\ UNCHANGED <<pvars, qvars, rvars, xvars, zvars, held, again, shut, launching, events>>

\* the initializeBrowser of line 430 has failed and returned: line 433 on
\* what this.browser is by now
AttemptInitFail(t) ==
    /\ tpc[t] = "init"
    /\ NewPage(t)
    /\ UNCHANGED <<pvars, qvars, rvars, xvars, zvars, held, again, thisBrowser, born, shut,
                   launching, events>>

\* lines 434-488 on a browser that is still open: the adapter returns, the
\* page is closed (line 490)
AttemptReturns(t) ==
    /\ tpc[t] = "page"
    /\ tpage[t] \notin shut
    /\ tpc' = [tpc EXCEPT ![t] = "idle"]
    /\ tpage' = [tpage EXCEPT ![t] = Null]
    /\ UNCHANGED <<pvars, qvars, rvars, xvars, zvars, held, again, thisBrowser, born, shut,
                   launching, events>>

\* lines 434-488 throw, the page is closed (line 490); withRetry goes to
\* its recovery when the message matches line 403, else to its backoff
AttemptThrows(t) ==
    /\ tpc[t] = "page"
    /\ \E transient \in BOOLEAN :
           tpc' = [tpc EXCEPT ![t] = IF transient THEN "recover" ELSE "idle"]
    /\ tpage' = [tpage EXCEPT ![t] = Null]
    /\ UNCHANGED <<pvars, qvars, rvars, xvars, zvars, held, again, thisBrowser, born, shut,
                   launching, events>>

\* lines 405-413: `this.browser.close()` when there is one, which makes
\* the browser emit 'disconnected'; then initializeBrowser is called
RecoverCloses(t) ==
    /\ tpc[t] = "recover"
    /\ tpc' = [tpc EXCEPT ![t] = "reinit"]
    /\ IF thisBrowser = Null THEN UNCHANGED <<shut, events>>
       ELSE /\ shut' = shut \cup {thisBrowser}
            /\ events' = IF thisBrowser \in shut THEN events
                         ELSE events \cup {thisBrowser}
    /\ UNCHANGED <<pvars, qvars, rvars, xvars, zvars, held, again, thisBrowser, born,
                   launching, tpage>>

\* the 'disconnected' handler of browser b, lines 219-223: this.browser
\* = null, and initializeBrowser is called
Disconnected(b) ==
    /\ b \in events
    /\ events' = events \ {b}
    /\ thisBrowser' = Null
    /\ launching' = launching + 1
    /\ UNCHANGED <<pvars, qvars, rvars, xvars, zvars, held, again, born, shut, tpc, tpage>>

\* the initializeBrowser of line 413 has launched a browser; the backoff
RecoverInitOk(t) ==
    /\ tpc[t] = "reinit"
    /\ born < MaxShared
    /\ Launched
    /\ tpc' = [tpc EXCEPT ![t] = "idle"]
    /\ UNCHANGED <<pvars, qvars, rvars, xvars, zvars, held, again, shut, launching, events,
                   tpage>>

\* ... or has failed and returned
RecoverInitFail(t) ==
    /\ tpc[t] = "reinit"
    /\ tpc' = [tpc EXCEPT ![t] = "idle"]
    /\ UNCHANGED <<pvars, qvars, rvars, xvars, zvars, held, again, thisBrowser, born, shut,
                   launching, events, tpage>>

NextShared ==
    \/ LaunchOk
    \/ LaunchFail
    \/ \E b \in 1..MaxShared : Disconnected(b)
    \/ \E t \in Tasks : AttemptStarts(t)
    \/ \E t \in Tasks : AttemptInitOk(t)
    \/ \E t \in Tasks : AttemptInitFail(t)
    \/ \E t \in Tasks : AttemptReturns(t)
    \/ \E t \in Tasks : AttemptThrows(t)
    \/ \E t \in Tasks : RecoverCloses(t)
    \/ \E t \in Tasks : RecoverInitOk(t)
    \/ \E t \in Tasks : RecoverInitFail(t)

SpecShared == InitShared /\ [][NextShared]_vars

\* ====================================================== withRetry
MaxAttempts == 3     \* the largest `attempts`, and the invocations scripted

\* what an invocation of scraperFn returns ...
Returns == {"A", "B"}

\* ... or throws: the message of the error, or Undefined for an error that
\* has none (throw undefined)
Errors == {"Timeout", "Boom", Undefined}

\* line 403: the test of the error's message
Matches(err) == err \in {"Protocol error", "Connection closed", "Timeout"}

LoopStopsEarly(i, n) == i + 1 < n

LoopGoesOnceMore(i, n) == i <= n

\* line 394: the loop condition
LoopGoes(i, n) == i < n

\* line 417: the delay after the failure of attempt i
Backoff(i) == 500 + i * 200

Resolved(v) == [kind |-> "returned", val |-> v]
Raised(e) == [kind |-> "threw", val |-> e]

\* withRetry is about to be called, with some attempt bound, on a task whose
\* successive invocations end as `task` tells
InitRetry ==
    /\ InitPool
    /\ NoQuery
    /\ NoDedup /\ body = QueryAb /\ error = "" /\ NoRun /\ NoLogs
    /\ Elsewhere
    /\ attempts \in 0..MaxAttempts
    /\ task \in [1..MaxAttempts -> Returns \cup Errors]
    /\ rpc = "none"
    /\ ri = 0
    /\ lastErr = Undefined
    /\ invoked = 0
    /\ delays = <<>>
    /\ recovered = 0
    /\ outcome = NoOutcome

\* the top of the loop with i: the next invocation (line 397), or the throw
\* of line 420
Iterate(i) ==
    /\ ri' = i
    /\ IF LoopGoes(i, attempts)
       THEN /\ rpc' = "task"
            /\ invoked' = invoked + 1
            /\ UNCHANGED outcome
       ELSE /\ rpc' = "done"
            /\ outcome' = Raised(lastErr)
            /\ UNCHANGED invoked

\* withRetry(scraperFn, query, attempts) is called
WithRetry ==
    /\ rpc = "none"
    /\ Iterate(0)
    /\ UNCHANGED <<pvars, qvars, xvars, yvars, zvars, attempts, task, lastErr, delays, recovered>>

\* the invocation returns: line 397 returns its value
TaskReturns ==
    /\ rpc = "task"
    /\ task[invoked] \in Returns
    /\ rpc' = "done"
    /\ outcome' = Resolved(task[invoked])
    /\ UNCHANGED <<pvars, qvars, xvars, yvars, zvars, attempts, task, ri, lastErr, invoked, delays,
                   recovered>>

\* the invocation throws: lines 398-403.  `err.message` of line 403 throws
\* a TypeError out of the catch block when err is undefined.
TaskThrows ==
    /\ rpc = "task"
    /\ task[invoked] \in Errors
    /\ lastErr' = task[invoked]
    /\ IF task[invoked] = Undefined
       THEN /\ rpc' = "done"
            /\ outcome' = Raised("TypeError")
       ELSE /\ rpc' = IF Matches(task[invoked]) THEN "recover" ELSE "backoff"
            /\ UNCHANGED outcome
    /\ UNCHANGED <<pvars, qvars, xvars, yvars, zvars, attempts, task, ri, invoked, delays,
                   recovered>>

\* lines 404-414: the shared browser is closed and initializeBrowser has
\* run (it catches its own errors)
Recover ==
    /\ rpc = "recover"
    /\ recovered' = recovered + 1
    /\ rpc' = "backoff"
    /\ UNCHANGED <<pvars, qvars, xvars, yvars, zvars, attempts, task, ri, lastErr, invoked, delays,
                   outcome>>

\* the delay of line 417 is over: the next iteration
BackoffOver ==
    /\ rpc = "backoff"
    /\ delays' = Append(delays, Backoff(ri))
    /\ Iterate(ri + 1)
    /\ UNCHANGED <<pvars, qvars, xvars, yvars, zvars, attempts, task, lastErr, recovered>>

NextRetry ==
    \/ WithRetry
    \/ TaskReturns
    \/ TaskThrows
    \/ Recover
    \/ BackoffOver

SpecRetry == InitRetry /\ [][NextRetry]_vars

\* ================================================================ claims
Alive == ~browserPool.isNull

Held == {browser[c] : c \in {d \in Clients : Borrowed(d)}}

\* c, waiting, is handed a browser in this step
Obtains(c) == pc[c] = "waiting" /\ pc'[c] = "page"

\* no caller that called acquire before c is still waiting
Oldest(c) == c \in Waiting /\ ~ \E w \in Clients : <<w, c>> \in before

\* the replacement launch of a live pool returns in this step
ReplacedStep == Alive /\ replacing' = replacing - 1 /\ nextId' = nextId + 1

\* c's call of scrapeSiteWithTempBrowser releases its browser in this step
ReleaseStep(c) == pc[c] = "page" /\ pc'[c] = "idle"

\* c's timer fires in this step while c waits
TimeoutStep(c) == pc[c] = "waiting" /\ timer[c] /\ ~timer'[c] /\ ~Obtains(c)

\* C1: no session is held by two callers, none is in `available` while
\* checked out, none occurs twice in `browsers` or in `available`.
C1_SessionExclusive ==
    /\ \A c1, c2 \in Clients :
         (c1 # c2 /\ Borrowed(c1)) => browser[c1] # browser[c2]
    /\ Held \cap SeqToSet(browserPool.available) = {}
    /\ NoDup(browserPool.browsers)
    /\ NoDup(browserPool.available)

\* two callers hold browsers, one of them handed over by a release
C1_Witness ==
    /\ last.op = "released"
    /\ \E c \in Clients : c # last.who /\ Borrowed(c) /\ Borrowed(last.who)

\* C2: a waiter obtains a session only when no caller that started waiting
\* before it is still waiting: waiters are served in arrival order.
C2_WaitersInArrivalOrder ==
    [][\A c \in Clients : Obtains(c) => Oldest(c)]_vars

\* a release served the older of two waiters; the younger still waits
C2_Witness ==
    /\ last.op = "released"
    /\ \E w \in Waiting : timer[w] /\ w # last.who

\* C3: a live pool never has a waiter pending and a session available.
C3_NoWaiterBesideAvailable ==
    Alive => ~(Len(browserPool.pending) > 0 /\ Len(browserPool.available) > 0)

\* C4: the pool never tracks more sessions than max(1, poolSize).
C4_PoolSizeBound == Alive => Len(browserPool.browsers) <= Max(1, poolSize)

\* a replacement has filled the pool up again
C4_Witness ==
    /\ last.op \in {"replaced", "replacedNext"}
    /\ Len(browserPool.browsers) = Max(1, poolSize)
    /\ poolSize = DefaultPoolSize

\* C5: a waiter whose timer fires fails with the pool-timeout error, its
\* entry leaves `pending`, the other waiters keep their order, `available`
\* and `browsers` are unchanged.
C5_TimeoutRejects ==
    [][\A c \in Clients : TimeoutStep(c) =>
          /\ pc'[c] = "temp"
          /\ last' = Did("timeout", c)
          /\ browserPool'.pending = Splice(browserPool.pending, c)
          /\ browserPool'.available = browserPool.available
          /\ browserPool'.browsers = browserPool.browsers]_vars

\* C6: every acquireFromPool call completes: the server never comes to a
\* halt with a caller still suspended in acquireFromPool.
C6_AcquireCompletes == (~ENABLED Next) => Waiting = {}

\* C7: releaseToPool with a waiter pending resolves exactly the
\* longest-waiting entry with the released session, cancels its timer and
\* leaves `available` alone; with none pending it appends the session to
\* `available` and changes nothing else.
C7_ReleaseEffect ==
    [][\A c \in Clients : (ReleaseStep(c) /\ Alive) =>
          IF Len(browserPool.pending) > 0
          THEN \E w \in Clients :
                 /\ Oldest(w)
                 /\ Obtains(w)
                 /\ browser'[w] = browser[c]
                 /\ ~timer'[w]
                 /\ \A x \in Clients \ {c, w} :
                      /\ pc'[x] = pc[x]
                      /\ browser'[x] = browser[x]
                      /\ timer'[x] = timer[x]
                 /\ browserPool'.pending = Tail(browserPool.pending)
                 /\ browserPool'.available = browserPool.available
                 /\ browserPool'.browsers = browserPool.browsers
          ELSE /\ browserPool' =
                    [browserPool EXCEPT !.available = Append(@, browser[c])]
               /\ \A x \in Clients \ {c} :
                    /\ pc'[x] = pc[x]
                    /\ browser'[x] = browser[x]
                    /\ timer'[x] = timer[x]]_vars

\* a release has handed its session to a waiter and disarmed the timer
C7_Witness ==
    /\ last.op = "released"
    /\ pc[last.who] = "page"
    /\ ~timer[last.who]
    /\ browserPool.available = <<>>

\* C8: a replacement that a live pool receives goes to the oldest pending
\* waiter, whose timer is cancelled, and to `available` when no one waits.
C8_ReplacementToOldestWaiter ==
    [][ReplacedStep =>
          IF Len(browserPool.pending) > 0
          THEN /\ browser'[Head(browserPool.pending)] = nextId
               /\ ~timer'[Head(browserPool.pending)]
          ELSE nextId \in SeqToSet(browserPool'.available)]_vars

C10_DestroyedPool ==
    /\ [](destroyPc = "done" => destroyed \subseteq closed)
    /\ [][destroyPc # "none" =>
            \A c \in Clients :
              /\ pc'[c] = "waiting" => pc[c] = "waiting"
              /\ browser'[c] \in Sessions => browser[c] \in Sessions]_vars

\* destroyPool has closed the browsers of the pool and a later
\* acquireFromPool has failed
C10_Witness ==
    /\ destroyPc = "done"
    /\ destroyed # {}
    /\ last.op = "acquireError"

\* a step in which caller c hands the pooled browser it holds to
\* removeBrowserFromPool (lines 770, 920)
RemoveStep(c) == Borrowed(c) /\ pc[c] \in {"page", "scrape"} /\ pc'[c] = "delay"

\* C11: every session removed from the pool by removeBrowserFromPool has
\* its close() invoked on the path that removed it; in particular the pooled
\* browser removed after a failure that follows newPage does not stay
\* running outside the pool.
C11_RemovedIsClosed ==
    [][\A c \in Clients :
          (Alive /\ RemoveStep(c)) => browser[c] \in closed']_vars

\* ------------------------------------------------ claims on one query
\* the query's attempt ends: its call returns, or goes into the delay of
\* line 928
ExitStep == pc[Q] \in {"page", "scrape"} /\ pc'[Q] \in {"idle", "delay"}

\* the session the query holds is back in the pool after the step
ReleasedBack ==
    \/ browser[Q] \in SeqToSet(browserPool'.available)
    \/ \E w \in Clients \ {Q} : browser'[w] = browser[Q]

\* the session the query holds is out of the pool after the step, and its
\* replacement is being launched
RemovedAway ==
    /\ browser[Q] \notin SeqToSet(browserPool'.browsers)
    /\ browser[Q] \notin SeqToSet(browserPool'.available)
    /\ replacing' = replacing + 1

\* C12, as claimed: on every exit path of an attempt (success, newPage
\* failure, navigation or evaluation failure) the session is released back
\* to the pool if it was borrowed, closed if it was disposable.
C12_ReleasedOrClosed ==
    [][ExitStep =>
          IF Borrowed(Q) THEN ReleasedBack ELSE tmp' = "closed"]_vars

\* C12, amended: a borrowed session is released back when the attempt
\* succeeds and removed from the pool, with a replacement launch started,
\* when it fails; a disposable session is closed on every exit path.
C12_ReleasedRemovedOrClosed ==
    [][ExitStep =>
          IF Borrowed(Q)
          THEN /\ pc'[Q] = "idle" => ReleasedBack
               /\ pc'[Q] = "delay" => RemovedAway
          ELSE tmp' = "closed"]_vars

\* a pooled attempt has just failed and its session was removed, in a query
\* that released a session before
C12_Witness ==
    /\ pc[Q] = "delay" /\ tmp = "none" /\ replacing > 0
    /\ "items" \in SeqToSet(log)

\* the step records the end of the call for a site
Recorded == Len(log') = Len(log) + 1

\* C13: a site whose first attempt completes without error but yields no
\* product is recorded as having none only after a second, fallback
\* attempt.
C13_EmptyFirstAttemptRetried ==
    [][(Recorded /\ Borrowed(Q) /\ log'[Len(log')] = "empty")
          => attempt[Q] > 0]_vars

\* C14: the attempt that follows a failed pooled attempt never calls
\* acquireFromPool: it goes straight to the launch of a disposable
\* browser and leaves the pool as it is.
C14_FallbackBypassesPool ==
    [][(pc[Q] = "delay" /\ tmp = "none" /\ attempt'[Q] = attempt[Q] + 1)
          => (pc'[Q] = "temp" /\ browserPool' = browserPool)]_vars

IsSorted(ps) ==
    \A i, j \in 1..Len(ps) : i < j => SortValue(ps[i]) <= SortValue(ps[j])

\* C15: a site that throws on two consecutive attempts and would give its
\* Items products on the next one has them in the result of
\* scrapeMultipleSites, in price order.
C15_ThirdAttemptGathers ==
    /\ [][(Recorded /\ script.fails = 2 /\ script.yield = Items)
             => SeqToSet(Catalogue(siteI)) \subseteq SeqToSet(products')]_vars
    /\ [](status = 200 =>
             /\ IsSorted(results)
             /\ SeqToSet(products) \subseteq SeqToSet(results))

\* the query's acquireFromPool is rejected by its timeout in this step
AcquireFailsStep == pc[Q] = "waiting" /\ timedOut' /\ ~timedOut

\* a step of the query's attempt, on its own browser after the rejection
OwnBrowserStep ==
    timedOut /\ pc[Q] \in {"temp", "page", "scrape"} /\ pc'[Q] # pc[Q]

\* C16: when acquireFromPool fails inside scrapeSiteWithTempBrowser, the
\* same attempt goes on to launch a disposable browser; every exit path
\* closes that browser, and no step of the attempt changes the pool's
\* `browsers`, `available` or `pending`, or starts a replacement.
C16_TimeoutRunsOutsidePool ==
    [][/\ AcquireFailsStep =>
            /\ pc'[Q] = "temp"
            /\ attempt'[Q] = attempt[Q]
            /\ ~Borrowed(Q)'
       /\ OwnBrowserStep =>
            /\ browserPool' = browserPool
            /\ replacing' = replacing
            /\ ~Borrowed(Q)'
            /\ pc[Q] = "temp" => pc'[Q] \in {"page", "delay"}
            /\ (pc[Q] # "temp" /\ ExitStep) => tmp' = "closed"]_vars

\* an attempt whose acquire timed out has run on its own browser and closed
\* it, while the pool holds a session
C16_Witness ==
    /\ timedOut /\ tmp = "closed" /\ pc[Q] = "idle"
    /\ browserPool.browsers # <<>>

\* the products gathered from the first n sites, as `log` tells
RECURSIVE Gathered(_)
Gathered(n) ==
    IF n = 0 THEN <<>>
    ELSE Gathered(n - 1) \o (IF log[n] = "items" THEN Catalogue(n) ELSE <<>>)

\* C17: a site whose scrape fails on all attempts contributes no product
\* and keeps no other site from being attempted: the calls for all four
\* sites have ended when the query is answered, and the aggregate handed to
\* deduplicateAndSort holds the products of every site that gave some.
C17_FailedSiteIsSkipped ==
    /\ products = Gathered(Len(log))
    /\ qpc = "done" =>
          /\ Len(log) = NumSites
          /\ results = DeduplicateAndSort(Gathered(NumSites))

\* the query is answered; its second site failed on all attempts, its last
\* gave products
C17_Witness ==
    /\ qpc = "done" /\ Len(log) = NumSites
    /\ log[2] = "threw" /\ log[NumSites] = "items"

\* every step of NextQ but the response
BeforeAnswer ==
    \/ InitLaunchOk \/ InitLaunchFail \/ ReplacementOk \/ ReplacementFail
    \/ Request \/ QTimerFire \/ QLaunchOk \/ QLaunchFail \/ QNewPageOk
    \/ QNewPageFail \/ QScrapeOk \/ QScrapeFail \/ QAfterDelay \/ NextSite

\* no step of NextQ is possible (Respond is possible exactly when its guard
\* holds)
AtRest == ~CanRespond /\ ~ENABLED BeforeAnswer

\* C18: a request whose query passes validation is answered with 200 and
\* the products gathered, deduplicated and sorted (none when every site
\* failed or had nothing), never with a 5xx; and the server does not come
\* to rest before it has answered.
C18_AlwaysAnswered200 ==
    /\ qpc = "done" =>
          /\ status = 200
          /\ results = DeduplicateAndSort(products)
          /\ (\A i \in 1..Len(log) : log[i] # "items") => results = <<>>
    /\ AtRest => status = 200

\* answered, with every site failed or empty
C18_Witness ==
    /\ qpc = "done" /\ status = 200 /\ results = <<>>
    /\ log[1] = "threw" /\ log[2] = "empty"

\* the pool's sessions that are checked out
CheckedOut ==
    SeqToSet(browserPool.browsers) \ SeqToSet(browserPool.available)

\* C19: within one query the scrape of a site starts only when the scrape
\* of the site before it has returned or thrown; the query holds at most
\* one pool session at any instant; the aggregate holds the products in
\* the order in which the sites were processed.
C19_SitesInSequence ==
    /\ [][siteI' # siteI =>
             /\ siteI' = siteI + 1
             /\ pc[Q] = "idle" /\ ~Borrowed(Q)
             /\ Len(log) = siteI]_vars
    /\ [](Cardinality(CheckedOut) <= 1)
    /\ [](\A i, j \in 1..Len(products) :
             i < j => products[i].platform <= products[j].platform)

\* the third site is being scraped on a pooled session, after two sites
\* that gave products
C19_Witness ==
    /\ siteI = 3 /\ pc[Q] = "scrape" /\ Borrowed(Q)
    /\ Len(products) = 2 * Items

\* ------------------------------------------------- claims on withRetry
\* the task throws a transient error k times and then returns
FailsThenSucceeds(k) ==
    /\ \A n \in 1..k : Matches(task[n])
    /\ task[k + 1] \in Returns

\* C20: withRetry on a task that throws a transient error k times and then
\* succeeds, with attempts >= k + 1, returns the value of the successful
\* invocation, has invoked the task exactly k + 1 times and waited exactly k
\* backoff delays.
C20_ReturnsAfterKFailures ==
    \A k \in 0..(MaxAttempts - 1) :
        (rpc = "done" /\ FailsThenSucceeds(k) /\ attempts >= k + 1) =>
            /\ outcome = Resolved(task[k + 1])
            /\ invoked = k + 1
            /\ Len(delays) = k

\* the call has returned after two transient failures
C20_Witness ==
    /\ rpc = "done" /\ FailsThenSucceeds(2) /\ attempts >= 3
    /\ outcome.kind = "returned"

\* every invocation the attempt bound allows throws
FailsEveryTime == \A n \in 1..attempts : task[n] \in Errors

\* C21: when the task fails on every allowed attempt, withRetry fails, and
\* with the very value the last attempt threw, whatever the attempt bound
\* (0 and 1 included) and whatever the value.
C21_RethrowsLastError ==
    (rpc = "done" /\ FailsEveryTime) =>
        /\ outcome.kind = "threw"
        /\ attempts > 0 => outcome.val = task[attempts]

\* the invocation under way throws in this step
FailStep == rpc = "task" /\ rpc' # "task" /\ task[invoked] \in Errors

\* C22: after a failed attempt the recovery (close and re-initialize the
\* shared browser) is performed if and only if the error is transient;
\* after any other failure the shared browser is left alone and the task is
\* still retried up to the attempt bound.
C22_RecoveryIffTransient ==
    /\ [][FailStep =>
             IF Matches(task[invoked]) THEN rpc' = "recover"
             ELSE rpc' = "backoff" /\ recovered' = recovered]_vars
    /\ [][recovered' # recovered =>
             (rpc = "recover" /\ Matches(lastErr))]_vars
    /\ [][(rpc = "backoff" /\ ri + 1 < attempts) =>
             (rpc' = "task" /\ invoked' = invoked + 1)]_vars

\* C23: withRetry invokes the task at most `attempts` times, never after an
\* invocation has succeeded, and starts an invocation only when none is
\* under way.
C23_AtMostAttemptsInvocations ==
    /\ [](invoked <= attempts)
    /\ [](\A n \in 1..(invoked - 1) : task[n] \in Errors)
    /\ [][invoked' # invoked =>
             /\ invoked' = invoked + 1
             /\ rpc # "task" /\ rpc' = "task"
             /\ outcome = NoOutcome]_vars

\* every allowed attempt was made, and the last one succeeded
C23_Witness ==
    /\ rpc = "done" /\ attempts = MaxAttempts /\ invoked = attempts
    /\ outcome.kind = "returned"

\* ------------------------------------------------------------- C24
\* The dedup key of the claim, character by character: the names agree,
\* letter case apart, on their first 50 characters, and the prices are
\* the same.
LowerOf(c) == IF c \in 65..90 THEN c + 32 ELSE c

CutAt50(n) == IF n < 50 THEN n ELSE 50

SameKey(p, q) ==
    /\ p.price = q.price
    /\ CutAt50(Len(p.name)) = CutAt50(Len(q.name))
    /\ \A i \in 1..CutAt50(Len(p.name)) :
           LowerOf(p.name[i]) = LowerOf(q.name[i])

PhoneExample ==
    <<[platform |-> 1, name |-> PhoneX, price |-> 100],
      [platform |-> 2, name |-> PhoneX, price |-> 100],
      [platform |-> 3, name |-> PhoneY, price |-> 50]>>

\* C24: deduplicateAndSort returns, for each dedup key, exactly the first
\* product of the input with that key and none of the later ones; no two
\* products of the output have the same key, and every product of the
\* output is a product of the input.  [Phone X(100), Phone X(100),
\* Phone Y(50)] gives [Phone Y(50), Phone X(100)].
C24_FirstOfEachKeyKept ==
    output.kind = "returned" =>
        LET out == output.val
            First(i) == \A j \in 1..(i - 1) : ~SameKey(input[j], input[i])
        IN  /\ \A i \in 1..Len(input) :
                   First(i) <=> \E k \in 1..Len(out) : out[k] = input[i]
            /\ \A k, l \in 1..Len(out) :
                   k # l => ~SameKey(out[k], out[l])
            /\ \A k \in 1..Len(out) :
                   \E i \in 1..Len(input) : out[k] = input[i]
            /\ input = PhoneExample
                   => out = <<PhoneExample[3], PhoneExample[1]>>

C24_Witness ==
    /\ input = PhoneExample
    /\ output.kind = "returned"
    /\ Len(output.val) = 2

\* ------------------------------------------------------------- C25
Priced(product) == product.price # NullPrice

\* C25: whatever the prices of the input (0, 999999 and more, or none),
\* the priced products of the output of deduplicateAndSort are in
\* ascending order of price, and every product with no price comes after
\* every product that has one.
C25_AscendingMissingLast ==
    output.kind = "returned" =>
        \A k, l \in 1..Len(output.val) :
            k < l =>
                LET p == output.val[k]
                    q == output.val[l]
                IN  /\ Priced(p) /\ Priced(q) => p.price <= q.price
                    /\ ~Priced(p) => ~Priced(q)

\* ------------------------------------------------------------- C26
\* a null-priced product, a product priced 10, a null-priced product
NullTenNull ==
    /\ Len(input) = 3
    /\ input[1].price = NullPrice
    /\ input[2].price = 10
    /\ input[3].price = NullPrice

TenNullNull == <<input[2], input[1], input[3]>>

\* products of the output with equal sort value are in input order
\* (`platform` is the position in the input)
EqualsKeepOrder ==
    output.kind = "returned" =>
        \A k, l \in 1..Len(output.val) :
            k < l /\ SortValue(output.val[k]) = SortValue(output.val[l])
                => output.val[k].platform < output.val[l].platform

\* C26 as stated: deduplicateAndSort of any list [null, 10, null] returns
\* the three products in the order [10, null, null], and equal sort
\* values keep their input order.
C26_AsStated ==
    /\ (NullTenNull /\ output # NoOutput)
           => output.kind = "returned" /\ output.val = TenNullNull
    /\ EqualsKeepOrder

\* C26: deduplicateAndSort of a list [null, 10, null] whose products all
\* have a name, the two null-priced ones with different dedup keys,
\* returns the three products in the order [10, null, null]; with equal
\* keys it returns two, [10, null], the first null-priced product; with
\* a name missing it throws.  Products of the output with equal sort
\* value keep their input order.
C26_StableWhenKeysDiffer ==
    /\ (NullTenNull /\ output # NoOutput) =>
           IF DedupThrows(input) THEN output.kind = "threw"
           ELSE /\ output.kind = "returned"
                /\ output.val = IF SameKey(input[1], input[3])
                                THEN <<input[2], input[1]>>
                                ELSE TenNullNull
    /\ EqualsKeepOrder

C26_Witness ==
    /\ NullTenNull
    /\ ~DedupThrows(input)
    /\ ~SameKey(input[1], input[3])
    /\ output.kind = "returned"
    /\ output.val = TenNullNull

\* ------------------------------------------------------------- C27
\* at least two characters are left after trimming: two characters of
\* the text are no whitespace
TwoAfterTrimming(text) ==
    \E i, j \in 1..Len(text) : i < j /\ text[i] # 32 /\ text[j] # 32

MissingOrShort(value) ==
    \/ value.type = "undefined"
    \/ value.type = "string" /\ ~TwoAfterTrimming(value.text)
    \/ value.type = "number" /\ Len(value.text) < 2

\* C27: POST /api/compare-prices answers 400 with an error body, starting
\* no scraping and leaving the pool as it is, exactly when the query is
\* missing or has fewer than 2 characters after trimming; every other
\* query is accepted (scrapeMultipleSites starts).
C27_RejectsIffShort ==
    [][qpc = "none" /\ qpc' # "none" =>
          IF MissingOrShort(body)
          THEN /\ qpc' = "done"
               /\ status' = 400
               /\ error' # ""
               /\ UNCHANGED <<pvars, siteI, products>>
          ELSE /\ qpc' = "sites"
               /\ status' = Null
               /\ siteI' = 1]_vars

\* ------------------------------------------------------------- C28
QueryA == StringValue(<<97>>)

\* C28 as stated: the request with body {query: "ab"} is answered 400
\* "Query must be at least 2 characters long".
C28_AsStated ==
    (body = QueryAb /\ qpc # "none")
        => status = 400 /\ error = TooShortMessage

\* C28: the request with body {query: "a"} is answered 400 "Query must be
\* at least 2 characters long"; the request with body {query: "ab"} is
\* accepted: no 400, no error, scrapeMultipleSites starts.
C28_OneCharacterRejected ==
    /\ (body = QueryA /\ qpc # "none")
           => qpc = "done" /\ status = 400 /\ error = TooShortMessage
    /\ (body = QueryAb /\ qpc # "none")
           => qpc = "sites" /\ status = Null /\ error = "" /\ siteI = 1

C28_Witness ==
    /\ body = QueryA
    /\ qpc = "done"
    /\ status = 400
    /\ error = TooShortMessage

\* ------------------------------------------------------------- C29
\* the identifier names one of the four sites, letter case apart
NamesSite(site) ==
    \E known \in {Amazon, Flipkart, Myntra, Snapdeal} :
        /\ Len(site) = Len(known)
        /\ \A i \in 1..Len(site) : LowerOf(site[i]) = known[i]

\* C29: GET /api/run-scraper with a valid query and a site identifier
\* that is none of amazon, flipkart, myntra, snapdeal is answered
\* 400 'Unknown site', and no adapter and nothing else has been called.
C29_UnknownSiteIs400 ==
    (/\ runPc # "none"
     /\ TwoAfterTrimming(runReq.query)
     /\ ~NamesSite(runReq.site))
        => /\ runPc = "done"
           /\ runRes = Answer(400, "Unknown site")
           /\ adapter = NoCall

\* ------------------------------------------------------------- C30
\* the n most recent of the lines 1..logCalls, oldest first
MostRecent(n) ==
    LET m == IF logCalls < n THEN logCalls ELSE n
    IN  [i \in 1..m |-> logCalls - m + i]

\* C30: after any number of logDebug calls the buffer holds at most 200
\* lines, the most recently logged ones in logging order, and GET
\* /api/logs returns the last min(100, length) of them in that order.
C30_RingBufferAndLogs ==
    /\ [](Len(debugLogs) <= 200)
    /\ [](debugLogs = MostRecent(200))
    /\ [][served' # served =>
              /\ served'.sent
              /\ served'.logs = MostRecent(100)
              /\ Len(served'.logs) =
                     IF Len(debugLogs) < 100 THEN Len(debugLogs) ELSE 100
              /\ \A i \in 1..Len(served'.logs) :
                     served'.logs[i] =
                         debugLogs[Len(debugLogs) - Len(served'.logs) + i]
         ]_vars

C30_Witness ==
    /\ logCalls > 200
    /\ Len(debugLogs) = 200
    /\ debugLogs[1] = logCalls - 199
    /\ served.sent
    /\ Len(served.logs) = 100
    /\ served.logs[100] = logCalls

\* ------------------------------------------------------------- C31
\* C31: the wait after the i-th failed attempt (i from 0) is 500 + 200 i
\* ms, every failed attempt is followed by its wait, the last allowed one
\* included: a call that has raised has waited once per invocation, and
\* `attempts` times when it used all its attempts.
C31_BackoffAfterEveryFailure ==
    /\ \A k \in 1..Len(delays) : delays[k] = 500 + 200 * (k - 1)
    /\ rpc = "task" => Len(delays) = invoked - 1
    /\ (rpc = "done" /\ outcome.kind = "threw") => Len(delays) = invoked
    /\ (rpc = "done" /\ FailsEveryTime) => Len(delays) = attempts

\* ------------------------------------------------------------- C32
\* C32: every waiter entry is settled exactly once.  A deadline is armed
\* only for a caller that is still suspended in acquireFromPool (none
\* fires on a settled entry), a caller still suspended has its deadline
\* ahead of it (the deadline, once passed, has settled it), and the
\* entries of `pending` are the suspended callers, each once: a session
\* handed to the head of `pending` goes to a caller that waits for it.
C32_SettledExactlyOnce ==
    /\ \A c \in Clients : timer[c] => pc[c] = "waiting"
    /\ \A c \in Clients : pc[c] = "waiting" => timer[c]
    /\ ~browserPool.isNull =>
           /\ NoDup(browserPool.pending)
           /\ SeqToSet(browserPool.pending) = Waiting

\* ------------------------------------------------------------- C33
InHand == {browser[c] : c \in Clients} \cap Sessions

\* the step hands the session b of caller c to releaseToPool: b is at the
\* tail of `available` or in the hands of a caller that waited for it
ReleasedBy(c, b) ==
    /\ b \in SeqToSet(browserPool.browsers')
    /\ \/ /\ browserPool.pending = <<>>
          /\ browserPool.available' = Append(browserPool.available, b)
       \/ /\ browserPool.pending # <<>>
          /\ browser'[Head(browserPool.pending)] = b
          /\ b \notin SeqToSet(browserPool.available')
    /\ replacing' = replacing

\* the step hands b to removeBrowserFromPool: the pool no longer tracks b,
\* and one replacement launch has started
RemovedBy(c, b) ==
    /\ b \notin SeqToSet(browserPool.browsers')
    /\ b \notin SeqToSet(browserPool.available')
    /\ b \notin {browser'[d] : d \in Clients}
    /\ replacing' = replacing + 1

AllFinished == (\A c \in Clients : pc[c] = "idle") /\ replacing = 0

C34_RemovalCannotGrowPool ==
    /\ [][replacing' > replacing =>
              Len(browserPool.browsers') = Len(browserPool.browsers) - 1
         ]_vars
    /\ [](Len(browserPool.browsers) <= held)

\* ------------------------------------------------------------- C35
\* C35: when destroyPool has been called while a replacement launch was
\* in flight, the browser that launch returns is not left open: the step
\* that receives it closes it.  (It is in no copy of `browsers`, so no
\* later step can.)
C35_NoReplacementLeftOpen ==
    [][(browserPool.isNull /\ replacing' < replacing /\ nextId' > nextId)
          => nextId \in closed']_vars

\* ------------------------------------------------------------- C36
\* C36: every browser initializeBrowser has launched is the one
\* this.browser refers to, or has been closed; so at most one is open.
C36_OneSharedBrowser ==
    /\ \A b \in 1..born : b = thisBrowser \/ b \in shut
    /\ Cardinality((1..born) \ shut) <= 1

\* ------------------------------------------------------------- C37
\* C37: the recovery of withRetry in one task closes no browser on which
\* another task has a page open.
C37_NoCloseUnderOpenPage ==
    [][\A b \in shut' \ shut : \A t \in Tasks : tpage[t] # b]_vars

\* ------------------------------------------------------------- C38
\* C38: deduplicateAndSort is idempotent: called on the list it returned
\* (for products that all have a name), it returns that same list.
C38_Idempotent ==
    again # NoOutput => again.kind = "returned" /\ again.val = output.val

\* a list that lost a product to the first call and was reordered by it
C38_Witness ==
    /\ again # NoOutput
    /\ Len(input) = 3
    /\ Len(output.val) = 2
    /\ output.val[1] = input[3]
    /\ again.val = output.val

\* ------------------------------------------------- the extension's popup
\* extension/background.js, class PriceComparisonPopup.  The four sections
\* of the popup; `visible` holds those without the class `hidden`.
Sections == {"loading", "error", "results", "empty"}

\* pending auto-hide timers and fetches in flight the model follows
MaxTimers == 3
MaxFetch == 2

\* The popup as popup.html shows it before any event: popup.html is not
\* in the sources, so both a popup showing its empty state and one showing
\* nothing are taken.
InitPopup ==
    /\ InitPool /\ NoQuery /\ NoRetry
    /\ NoDedup /\ body = QueryAb /\ error = "" /\ NoRun /\ NoLogs
    /\ held = 0 /\ again = NoOutput /\ NoShared
    /\ visible \in {{}, {"empty"}}
    /\ timers = 0
    /\ fetching = 0
    /\ textContent = ""

\* hideAllSections (324-329) leaves no section visible; showLoading
\* (224-227) then shows the loading indicator
showLoading == {"loading"}

\* showError (229-238): hideAllSections, the message shown, and a timer of
\* 6 seconds started that nothing ever cancels
showError(text) ==
    /\ timers < MaxTimers
    /\ textContent' = text
    /\ visible' = {"error"}
    /\ timers' = timers + 1

\* handleSearch with an empty input (196-200)
SearchEmpty ==
    /\ showError("Please enter a product name")
    /\ UNCHANGED <<pvars, qvars, rvars, xvars, yvars, fetching>>

\* handleSearch up to its await of fetch (202-205); the search button is
\* never disabled, so a search can start while another is in flight
SearchStarts ==
    /\ fetching < MaxFetch
    /\ visible' = showLoading
    /\ fetching' = fetching + 1
    /\ UNCHANGED <<pvars, qvars, rvars, xvars, yvars, timers, textContent>>

\* the fetch rejects or answers with a status that is not ok (210-221)
FetchFails ==
    /\ fetching > 0
    /\ fetching' = fetching - 1
    /\ showError("Failed to fetch prices. Please check your connection and try again.")
    /\ UNCHANGED <<pvars, qvars, rvars, xvars, yvars>>

\* displayResults with products (240-257)
DisplayResults ==
    /\ fetching > 0
    /\ fetching' = fetching - 1
    /\ visible' = {"results"}
    /\ UNCHANGED <<pvars, qvars, rvars, xvars, yvars, timers, textContent>>

\* displayResults with no product (243-246)
DisplayNothing ==
    /\ fetching > 0
    /\ fetching' = fetching - 1
    /\ showError("No products found for the query. Try a different search term.")
    /\ UNCHANGED <<pvars, qvars, rvars, xvars, yvars>>

\* useSelectedText finds no selection or throws (175-193)
UseSelectedTextFails ==
    /\ showError("No text selected on the webpage. Please select text first.")
    /\ UNCHANGED <<pvars, qvars, rvars, xvars, yvars, fetching>>

\* a buy button of a product without a link is clicked (288-294)
BuyWithoutLink ==
    /\ "results" \in visible
    /\ showError("Product link is missing or invalid.")
    /\ UNCHANGED <<pvars, qvars, rvars, xvars, yvars, fetching>>

\* the callback of showError's setTimeout (234-237)
ErrorTimerFires ==
    /\ timers > 0
    /\ timers' = timers - 1
    /\ visible' = (visible \ {"error"}) \cup {"empty"}
    /\ UNCHANGED <<pvars, qvars, rvars, xvars, yvars, fetching, textContent>>

NextPopup ==
    \/ SearchEmpty
    \/ SearchStarts
    \/ FetchFails
    \/ DisplayResults
    \/ DisplayNothing
    \/ UseSelectedTextFails
    \/ BuyWithoutLink
    \/ ErrorTimerFires

SpecPopup == InitPopup /\ [][NextPopup]_vars

\* ------------------------------------------------------------- C39
\* C39: at most one of the four sections of the popup is visible, and the
\* empty state is never visible together with the results.
C39_AtMostOneSection ==
    /\ Cardinality(visible) <= 1
    /\ ~ ({"results", "empty"} \subseteq visible)
====
